---- MODULE Spec2Model ----
(***************************************************************************)
(* Model of SimpleRLLoop (src/rl_learning_loop.py): the three score        *)
(* mappings, the shown-recommendation history, the update rules and the    *)
(* JSON persistence of the mappings.                                       *)
(*                                                                         *)
(* Representation choices                                                  *)
(*  - A Python float is a fixed-point number counted in 1/Unit, so 0.1 is  *)
(*    Unit \div 10.  All inputs are chosen so that every product and       *)
(*    quotient the code computes is exact in this representation; binary   *)
(*    rounding of IEEE doubles is not modelled.                            *)
(*  - A Python dict is a sequence of [k, v] entries with distinct keys,    *)
(*    in insertion order (the order in which .items() iterates).           *)
(*  - A Python str is a sequence of one-character strings.                 *)
(***************************************************************************)
EXTENDS Integers, Sequences, FiniteSets, TLC

VARIABLES
    q_values,               \* self.q_values: dict (user_id, item_id) -> float
    user_preferences,       \* self.user_preferences: dict user_id -> dict item_id -> float
    item_popularity,        \* self.item_popularity: dict item_id -> float
    state_action_history,   \* self.state_action_history: list of records
    file,                   \* what json.load would find at "rl_state.json"
    written,                \* the mappings as they were when the file was last written in full
    tamper,                 \* what happened to the file outside the program since then
    ret,                    \* outcome of the last call: its name, whether it raised, what it returned
    n_calls,                \* number of record_* calls made so far
    n_io,                   \* number of __init__ / save_state / load_state calls made so far
    cart_items,             \* CartManager.cart_items: list of line dicts
    restaurant_id,          \* CartManager.restaurant_id (None is 0)
    orders,                 \* the rows create_order has inserted into the orders table
    session,                \* the orchestrator class that owns the store and the cart
    peer,                   \* the three mappings of a second SimpleRLLoop instance
    chain,                  \* HybridOrchestrator.process_user_input: its configuration and call stack
    trail                   \* the update calls made since the store was trail.start

\* what the orchestrators put around a SimpleRLLoop
env == <<cart_items, restaurant_id, orders, session, peer, chain, trail>>

vars == <<q_values, user_preferences, item_popularity, state_action_history,
          file, written, tamper, ret, n_calls, n_io,
          cart_items, restaurant_id, orders, session, peer, chain, trail>>

----------------------------------------------------------------------------
(* Bounds of the model *)

MaxCalls == 2
MaxIO == 3
MaxRepeat == 3

----------------------------------------------------------------------------
(* Numbers *)

Unit == 1000

\* the float n/10
Tenths(n) == (n * Unit) \div 10

\* self.alpha = 0.1
Alpha == Tenths(1)

\* a * b on floats, both counted in 1/Unit
Mul(a, b) == (a * b) \div Unit

Users == {1, 12}
Items == {2, 21}

----------------------------------------------------------------------------
(* dict *)

Has(d, k) == \E n \in 1..Len(d) : d[n].k = k

Idx(d, k) == CHOOSE n \in 1..Len(d) : d[n].k = k

\* d.get(k, default): no entry is created
Get(d, k, default) == IF Has(d, k) THEN d[Idx(d, k)].v ELSE default

\* d[k] = v
Put(d, k, v) ==
    IF Has(d, k) THEN [d EXCEPT ![Idx(d, k)].v = v]
    ELSE Append(d, [k |-> k, v |-> v])

\* d[k] += delta on a defaultdict(float): a missing key starts at 0.0
AddTo(d, k, delta) == Put(d, k, Get(d, k, 0) + delta)

\* p[u][i] += delta on defaultdict(lambda: defaultdict(float))
AddPref(p, u, i, delta) == Put(p, u, AddTo(Get(p, u, <<>>), i, delta))

Keys(d) == {d[n].k : n \in 1..Len(d)}

\* the (key, value) pairs of a dict
Pairs(d) == {<<d[n].k, d[n].v>> : n \in 1..Len(d)}

\* the (user, item, value) triples of the two-level preference dict
PrefTriples(p) ==
    UNION {{<<p[n].k, p[n].v[m].k, p[n].v[m].v>> : m \in 1..Len(p[n].v)} : n \in 1..Len(p)}

\* the three mappings as one value
Store(q, p, pop) == [q |-> q, prefs |-> p, pop |-> pop]

EmptyStore == Store(<<>>, <<>>, <<>>)

Current == Store(q_values, user_preferences, item_popularity)

----------------------------------------------------------------------------
(* Inputs *)

Line(i, n) == [item_id |-> i, quantity |-> n]

\* items 2 (qty 2) and 21 (qty 1), total 600
OrderTwo == [items |-> <<Line(2, 2), Line(21, 1)>>, total |-> 600]

\* four different items, total 600
OrderFour == [items |-> <<Line(2, 1), Line(3, 1), Line(21, 1), Line(40, 2)>>, total |-> 600]

\* order_data as the orchestrators build it: line items and a total
Orders ==
    { OrderTwo,
      OrderFour,
      [items |-> <<Line(2, 1), Line(3, 1), Line(21, 1)>>, total |-> 500],
      [items |-> <<Line(21, 1), Line(21, 2)>>, total |-> 501] }

\* feedback_score: -0.5, 0.9, 4.5 and 10.0
FeedbackScores == { -Tenths(5), Tenths(9), Tenths(45), Tenths(100) }

Rec(i, nm) == [item_id |-> i, name |-> nm]

\* a menu item as the orchestrators pass it on: more fields than item_id and name
Dish(i, nm, price) == [item_id |-> i, name |-> nm, price |-> price]

\* lists handed to record_recommendation_shown: one short, one longer than 5
RecLists ==
    { <<Dish(2, "a", 120)>>,
      <<Dish(21, "b", 80), Dish(2, "a", 120), Dish(3, "c", 60), Dish(40, "d", 250),
        Dish(5, "e", 90), Dish(6, "f", 40)>> }

\* available_items handed to get_personalized_recommendations: none, two, three, four
\* (two of them never scored) and six candidates
CandidateLists ==
    { <<>>,
      <<Rec(21, "b"), Rec(2, "a")>>,
      <<Rec(5, "e"), Rec(21, "b"), Rec(2, "a")>>,
      <<Rec(5, "e"), Rec(2, "a"), Rec(6, "f"), Rec(21, "b")>>,
      <<Rec(21, "b"), Rec(2, "a"), Rec(3, "c"), Rec(40, "d"), Rec(5, "e"), Rec(6, "f")>> }

\* values of random.random(): one below epsilon, and epsilon itself
Draws == { 0, Tenths(1) }

----------------------------------------------------------------------------
(* Update rules *)

\* record_item_selected with "=" where the code has "+=" on the Q-value
RecordItemSelectedOverwrite(st, u, i) ==
    Store(Put(st.q, <<u, i>>, Alpha),
          AddPref(st.prefs, u, i, Tenths(2)),
          AddTo(st.pop, i, Tenths(1)))

\* record_item_selected
RecordItemSelected(st, u, i) ==
    Store(AddTo(st.q, <<u, i>>, Alpha),
          AddPref(st.prefs, u, i, Tenths(2)),
          AddTo(st.pop, i, Tenths(1)))

RECURSIVE SelectTimes(_, _, _, _)
\* n calls of record_item_selected(u, i)
SelectTimes(st, u, i, n) ==
    IF n = 0 THEN st ELSE SelectTimes(RecordItemSelected(st, u, i), u, i, n - 1)

HighValueTotal == 500
MultiItemCount == 3

\* the reward with ">=" where the code has ">"
RewardInclusive(order) ==
    Tenths(10)
    + (IF order.total >= HighValueTotal THEN Tenths(5) ELSE 0)
    + (IF Len(order.items) >= MultiItemCount THEN Tenths(3) ELSE 0)

\* the reward record_order_completed computes
Reward(order) ==
    LET items_count == Len(order.items)
        order_total == order.total
    IN  Tenths(10)
        + (IF order_total > HighValueTotal THEN Tenths(5) ELSE 0)
        + (IF items_count > MultiItemCount THEN Tenths(3) ELSE 0)

\* the loop body with the Q-value update scaled by alpha
ApplyLineScaled(st, u, line, reward) ==
    Store(AddTo(st.q, <<u, line.item_id>>, Mul(reward, Alpha)),
          AddPref(st.prefs, u, line.item_id, reward),
          AddTo(st.pop, line.item_id, line.quantity * Tenths(5)))

\* the loop body giving the user a new preference dict that holds the ordered item
\* alone
ApplyLineFreshPrefs(st, u, line, reward) ==
    Store(AddTo(st.q, <<u, line.item_id>>, reward),
          Put(st.prefs, u, <<[k |-> line.item_id, v |-> reward]>>),
          AddTo(st.pop, line.item_id, line.quantity * Tenths(5)))

\* the body of the loop over order_data['items'], for one line item
ApplyLine(st, u, line, reward) ==
    LET touched == Put(st.prefs, u, Get(st.prefs, u, <<>>))
    IN  Store(AddTo(st.q, <<u, line.item_id>>, reward),
              AddPref(touched, u, line.item_id, reward),
              AddTo(st.pop, line.item_id, line.quantity * Tenths(5)))

RECURSIVE ApplyLines(_, _, _, _)
ApplyLines(st, u, lines, reward) ==
    IF lines = <<>> THEN st
    ELSE ApplyLines(ApplyLine(st, u, Head(lines), reward), u, Tail(lines), reward)

\* record_order_completed: the store afterwards
RecordOrderCompleted(st, u, order) == ApplyLines(st, u, order.items, Reward(order))

\* no normalization at all
NormalizedNever(score) == score

\* feedback_score after "if feedback_score > 1: feedback_score = feedback_score / 5.0"
Normalized(score) == IF score > Unit THEN score \div 5 ELSE score

\* record_user_feedback without its update of the preference weight
RecordUserFeedbackQOnly(st, u, i, score) ==
    Store(AddTo(st.q, <<u, i>>, Mul(Normalized(score), Alpha)), st.prefs, st.pop)

\* record_user_feedback
RecordUserFeedback(st, u, i, score) ==
    LET f == Normalized(score)
    IN  Store(AddTo(st.q, <<u, i>>, Mul(f, Alpha)),
              AddPref(st.prefs, u, i, f),
              st.pop)

\* the first n elements of a list: s[:n]
Take(s, n) == SubSeq(s, 1, IF Len(s) < n THEN Len(s) ELSE n)

ShownCap == 5

\* {'item_id': r.get('item_id'), 'name': r.get('name')} for each r of the list
Snapshot(recs) ==
    [n \in 1..Len(recs) |-> [item_id |-> recs[n].item_id, name |-> recs[n].name]]

\* the record with every recommendation of the list in it
ShownRecordUncapped(h, u, recs) ==
    [state_id |-> Len(h) + 1,
     user_id |-> u,
     action |-> "show_recommendations",
     recommendations |-> Snapshot(recs),
     reward |-> "None",
     completed |-> FALSE]

\* the record record_recommendation_shown appends; uuid4 gives an identifier no
\* earlier record has (here the next number), and the wall-clock timestamp is left out
ShownRecord(h, u, recs) ==
    [state_id |-> Len(h) + 1,
     user_id |-> u,
     action |-> "show_recommendations",
     recommendations |-> Snapshot(Take(recs, ShownCap)),
     reward |-> "None",
     completed |-> FALSE]

----------------------------------------------------------------------------
(* Reads *)

\* self.epsilon = 0.1
Epsilon == Tenths(1)

DisplayCap == 5

\* the score without the 0.1 factor on the popularity
ScoredFullPopularity(st, u, item) ==
    LET q_score == Get(st.q, <<u, item.item_id>>, 0)
        pref_score == Get(Get(st.prefs, u, <<>>), item.item_id, 0)
        pop_score == Get(st.pop, item.item_id, 0)
    IN  [item_id |-> item.item_id, name |-> item.name,
         rl_score |-> Mul(q_score, Tenths(4)) + Mul(pref_score, Tenths(4))
                      + Mul(pop_score, Tenths(2)),
         q_value |-> q_score, preference |-> pref_score]

\* the entry the scoring loop appends for one candidate: the candidate's own fields
\* and rl_score, q_value, preference
Scored(st, u, item) ==
    LET user_prefs == Get(st.prefs, u, <<>>)
        q_score == Get(st.q, <<u, item.item_id>>, 0)
        pref_score == Get(user_prefs, item.item_id, 0)
        pop_score == Mul(Get(st.pop, item.item_id, 0), Tenths(1))
        total_score == Mul(q_score, Tenths(4)) + Mul(pref_score, Tenths(4))
                       + Mul(pop_score, Tenths(2))
    IN  [item_id |-> item.item_id, name |-> item.name,
         rl_score |-> total_score, q_value |-> q_score, preference |-> pref_score]

\* scored_items
ScoredItems(st, u, items) == [n \in 1..Len(items) |-> Scored(st, u, items[n])]

\* a sort that puts an item before the items of equal score already placed
InsertBeforeEqual(t, x) ==
    LET k == Cardinality({n \in 1..Len(t) : t[n].rl_score > x.rl_score})
    IN  SubSeq(t, 1, k) \o <<x>> \o SubSeq(t, k + 1, Len(t))

\* x put into t, which is in descending order of rl_score, behind every item whose
\* score is at least that of x
InsertDesc(t, x) ==
    LET k == Cardinality({n \in 1..Len(t) : t[n].rl_score >= x.rl_score})
    IN  SubSeq(t, 1, k) \o <<x>> \o SubSeq(t, k + 1, Len(t))

RECURSIVE SortTiesReversed(_)
\* descending order, items of equal score in the reverse of their input order
SortTiesReversed(s) ==
    IF s = <<>> THEN <<>>
    ELSE InsertBeforeEqual(SortTiesReversed(SubSeq(s, 1, Len(s) - 1)), s[Len(s)])

RECURSIVE SortAscending(_)
\* ascending order: reverse=True forgotten
SortAscending(s) ==
    IF s = <<>> THEN <<>>
    ELSE LET t == SortAscending(SubSeq(s, 1, Len(s) - 1))
             x == s[Len(s)]
             k == Cardinality({n \in 1..Len(t) : t[n].rl_score <= x.rl_score})
         IN  SubSeq(t, 1, k) \o <<x>> \o SubSeq(t, k + 1, Len(t))

RECURSIVE SortedDesc(_)
\* sorted(s, key=lambda x: x['rl_score'], reverse=True): stable, so items of equal
\* score keep their order
SortedDesc(s) ==
    IF s = <<>> THEN <<>>
    ELSE InsertDesc(SortedDesc(SubSeq(s, 1, Len(s) - 1)), s[Len(s)])

\* the exploration test without the size condition
ExploresAnySize(draw, n) == draw < Epsilon

\* random.random() < self.epsilon and len(scored_items) > 3
Explores(draw, n) == draw < Epsilon /\ n > 3

\* no cap on the result
CappedNever(s) == s

\* final_items[:5]
Capped(s) == Take(s, DisplayCap)

\* what random.sample(scored_items, min(2, len(scored_items))) can give: the positions
\* of distinct elements, in any order
Samples(n) ==
    IF n = 0 THEN {<<>>}
    ELSE IF n = 1 THEN {<<1>>}
    ELSE {<<a, b>> : a \in 1..n, b \in 1..n} \ {<<a, a>> : a \in 1..n}

\* the list with a drawn item left out when it is already among the best three
RecommendationsDeduplicated(st, u, items, draw, sample) ==
    LET scored_items == ScoredItems(st, u, items)
    IN  IF Explores(draw, Len(scored_items))
        THEN LET best_items == Take(SortedDesc(scored_items), 3)
                 random_items == [n \in 1..Len(sample) |-> scored_items[sample[n]]]
                 fresh == SelectSeq(random_items,
                                    LAMBDA x : \A n \in 1..Len(best_items) : best_items[n] # x)
             IN  Capped(best_items \o fresh)
        ELSE Capped(SortedDesc(scored_items))

\* get_personalized_recommendations: the list returned, for a value of random.random()
\* and for the positions random.sample picks if it is called
Recommendations(st, u, items, draw, sample) ==
    LET scored_items == ScoredItems(st, u, items)
    IN  IF Explores(draw, Len(scored_items))
        THEN LET best_items == Take(SortedDesc(scored_items), 3)
                 random_items == [n \in 1..Len(sample) |-> scored_items[sample[n]]]
             IN  Capped(best_items \o random_items)
        ELSE Capped(SortedDesc(scored_items))

\* a read that looks the user up with [] instead of .get and so creates the entry
AfterReadIndexed(p, u) == Put(p, u, Get(p, u, <<>>))

\* self.user_preferences after self.user_preferences.get(user_id, {}): as before
AfterRead(p, u) == p

\* get_state_summary: the dict returned
StateSummary(p, h, u) ==
    LET user_prefs == Get(p, u, <<>>)
        top == [n \in 1..Len(user_prefs) |->
                   [rl_score |-> user_prefs[n].v, item_id |-> user_prefs[n].k]]
        top_items == Take(SortedDesc(top), 5)
    IN  [user_id |-> u,
         learned_items |-> Len(user_prefs),
         top_items |-> [n \in 1..Len(top_items) |->
                           [item_id |-> top_items[n].item_id,
                            preference_score |-> top_items[n].rl_score]],
         total_interactions |-> Cardinality({n \in 1..Len(h) : h[n].user_id = u})]

----------------------------------------------------------------------------
(* str and int *)

Digits == <<"0", "1", "2", "3", "4", "5", "6", "7", "8", "9">>

IsDigit(c) == \E d \in 1..Len(Digits) : Digits[d] = c

DigitValue(c) == (CHOOSE d \in 1..Len(Digits) : Digits[d] = c) - 1

RECURSIVE NatStr(_)
NatStr(n) ==
    IF n < 10 THEN <<Digits[n + 1]>>
    ELSE NatStr(n \div 10) \o <<Digits[(n % 10) + 1]>>

\* str(n) for an int n
Str(n) == IF n < 0 THEN <<"-">> \o NatStr(-n) ELSE NatStr(n)

\* the key without its separator
QKeyNoSeparator(u, i) == Str(u) \o Str(i)

\* f"{user_id}_{item_id}"
QKey(u, i) == Str(u) \o <<"_">> \o Str(i)

RECURSIVE Split(_)
\* s.split('_')
Split(s) ==
    IF \A n \in 1..Len(s) : s[n] # "_" THEN <<s>>
    ELSE LET n == CHOOSE m \in 1..Len(s) :
                      /\ s[m] = "_"
                      /\ \A l \in 1..(m - 1) : s[l] # "_"
         IN  <<SubSeq(s, 1, n - 1)>> \o Split(SubSeq(s, n + 1, Len(s)))

RECURSIVE Strip(_)
\* s.strip(), as int() does before it reads the number
Strip(s) ==
    IF s = <<>> THEN s
    ELSE IF Head(s) = " " THEN Strip(Tail(s))
    ELSE IF s[Len(s)] = " " THEN Strip(SubSeq(s, 1, Len(s) - 1))
    ELSE s

RECURSIVE DigitsValue(_)
\* the number written by digits, single underscores between them skipped
DigitsValue(s) ==
    IF s = <<>> THEN 0
    ELSE IF s[Len(s)] = "_" THEN DigitsValue(SubSeq(s, 1, Len(s) - 1))
    ELSE 10 * DigitsValue(SubSeq(s, 1, Len(s) - 1)) + DigitValue(s[Len(s)])

\* the digits part of an int literal: digits, with single underscores only between digits
IsIntBody(s) ==
    /\ s # <<>>
    /\ IsDigit(s[1])
    /\ IsDigit(s[Len(s)])
    /\ \A n \in 1..Len(s) : IsDigit(s[n]) \/ s[n] = "_"
    /\ \A n \in 1..(Len(s) - 1) : ~(s[n] = "_" /\ s[n + 1] = "_")

\* int(s) for a str s: ok is FALSE where int raises ValueError
ParseInt(s) ==
    LET t == Strip(s)
        signed == t # <<>> /\ t[1] \in {"-", "+"}
        body == IF signed THEN Tail(t) ELSE t
    IN  IF IsIntBody(body)
        THEN [ok |-> TRUE,
              val |-> IF signed /\ t[1] = "-" THEN -DigitsValue(body) ELSE DigitsValue(body)]
        ELSE [ok |-> FALSE, val |-> 0]

\* user_id, item_id = map(int, key.split('_')): ok is FALSE where this raises
ParseQKey(key) ==
    LET parts == Split(key)
    IN  IF Len(parts) = 2 /\ ParseInt(parts[1]).ok /\ ParseInt(parts[2]).ok
        THEN [ok |-> TRUE, k |-> <<ParseInt(parts[1]).val, ParseInt(parts[2]).val>>]
        ELSE [ok |-> FALSE, k |-> <<0, 0>>]

----------------------------------------------------------------------------
(* The state file, as json.load reads it *)

\* a JSON number
Num(n) == [t |-> "num", n |-> n]

\* a JSON string that is not a number, and JSON null
Text == [t |-> "text", n |-> 0]
Null == [t |-> "null", n |-> 0]

\* float(v) for a JSON value v: ok is FALSE where float raises
ToFloat(v) == [ok |-> v.t = "num", val |-> v.n]

\* a JSON value met where an object is expected: an object with its entries, or
\* something else (a list, a number, null), or nothing under that name
Obj(entries) == [kind |-> "object", entries |-> entries]
NotObj == [kind |-> "other", entries |-> <<>>]
Missing == [kind |-> "missing", entries |-> <<>>]

\* kind: "absent" (no such file), "garbage" (not JSON), "other" (JSON, but not an
\* object at the top), "doc" (an object: its three sections follow)
File(kind, q, prefs, pop) == [kind |-> kind, q |-> q, prefs |-> prefs, pop |-> pop]

NoFile == File("absent", Missing, Missing, Missing)
Garbage == File("garbage", Missing, Missing, Missing)
NotDict == File("other", Missing, Missing, Missing)

Front(s) == SubSeq(s, 1, Len(s) - 1)
Last(s) == s[Len(s)]

RECURSIVE SerializeQ(_)
\* q_values_serialized
SerializeQ(d) ==
    IF d = <<>> THEN <<>>
    ELSE Put(SerializeQ(Front(d)), QKey(Last(d).k[1], Last(d).k[2]), Num(Last(d).v))

RECURSIVE SerializeFlat(_)
\* {str(k): float(v) for k, v in d.items()}
SerializeFlat(d) ==
    IF d = <<>> THEN <<>>
    ELSE Put(SerializeFlat(Front(d)), Str(Last(d).k), Num(Last(d).v))

RECURSIVE SerializePrefs(_)
\* user_preferences_serialized
SerializePrefs(p) ==
    IF p = <<>> THEN <<>>
    ELSE Put(SerializePrefs(Front(p)), Str(Last(p).k), Obj(SerializeFlat(Last(p).v)))

\* the document save_state hands to json.dump (its timestamp left out)
SaveDoc(st) ==
    File("doc", Obj(SerializeQ(st.q)), Obj(SerializePrefs(st.prefs)),
         Obj(SerializeFlat(st.pop)))

\* state.get(name, {}) of a section
SectionOrEmpty(sec) == IF sec.kind = "missing" THEN Obj(<<>>) ELSE sec

RECURSIVE LoadQStopAtBad(_)
\* the loop with the try around it instead of inside it: the first bad entry ends it
LoadQStopAtBad(entries) ==
    IF entries = <<>> THEN <<>>
    ELSE LET e == Head(entries)
         IN  IF ParseQKey(e.k).ok /\ ToFloat(e.v).ok
             THEN <<[k |-> ParseQKey(e.k).k, v |-> ToFloat(e.v).val]>>
                  \o LoadQStopAtBad(Tail(entries))
             ELSE <<>>

RECURSIVE LoadQ(_)
\* the loop that restores q_values: an entry whose key or value does not parse is skipped
LoadQ(entries) ==
    IF entries = <<>> THEN <<>>
    ELSE LET rest == LoadQ(Front(entries))
             e == Last(entries)
         IN  IF ParseQKey(e.k).ok /\ ToFloat(e.v).ok
             THEN Put(rest, ParseQKey(e.k).k, ToFloat(e.v).val)
             ELSE rest

RECURSIVE LoadFlat(_)
\* the loop that restores item_popularity
LoadFlat(entries) ==
    IF entries = <<>> THEN <<>>
    ELSE LET rest == LoadFlat(Front(entries))
             e == Last(entries)
         IN  IF ParseInt(e.k).ok /\ ToFloat(e.v).ok
             THEN Put(rest, ParseInt(e.k).val, ToFloat(e.v).val)
             ELSE rest

RECURSIVE LoadUserItems(_, _, _)
\* the inner loop over one user's items; the try is around the whole loop, so the
\* first item that does not parse ends it
LoadUserItems(p, u, entries) ==
    IF entries = <<>> THEN p
    ELSE LET e == Head(entries)
         IN  IF ParseInt(e.k).ok /\ ToFloat(e.v).ok
             THEN LoadUserItems(Put(p, u, Put(Get(p, u, <<>>), ParseInt(e.k).val,
                                              ToFloat(e.v).val)),
                                u, Tail(entries))
             ELSE p

RECURSIVE LoadPrefs(_, _)
\* the loop that restores user_preferences
LoadPrefs(p, entries) ==
    IF entries = <<>> THEN p
    ELSE LET e == Head(entries)
             next == IF ParseInt(e.k).ok /\ e.v.kind = "object"
                     THEN LoadUserItems(p, ParseInt(e.k).val, e.v.entries)
                     ELSE p
         IN  LoadPrefs(next, Tail(entries))

\* load_state: the mappings afterwards.  Every exception is caught, at the place the
\* mappings had reached when it was thrown.
LoadState(st, f) ==
    IF f.kind \in {"absent", "garbage"} THEN st
    ELSE IF f.kind = "other" \/ SectionOrEmpty(f.q).kind # "object"
    THEN Store(<<>>, st.prefs, st.pop)
    ELSE LET q == LoadQ(SectionOrEmpty(f.q).entries)
         IN  IF SectionOrEmpty(f.prefs).kind # "object"
             THEN Store(q, <<>>, st.pop)
             ELSE LET p == LoadPrefs(<<>>, SectionOrEmpty(f.prefs).entries)
                  IN  IF SectionOrEmpty(f.pop).kind # "object"
                      THEN Store(q, p, <<>>)
                      ELSE Store(q, p, LoadFlat(SectionOrEmpty(f.pop).entries))

\* what was done to the file from outside: nothing, or which entry was damaged
Tamper(what, at, sub) == [what |-> what, at |-> at, sub |-> sub]
NoTamper == Tamper("none", 0, 0)

\* keys that are not "<int>_<int>": "abc_xyz", "1_2_3" and "12"
BadQKeys ==
    { <<"a", "b", "c", "_", "x", "y", "z">>, <<"1", "_", "2", "_", "3">>, <<"1", "2">> }

\* a key that is not an int: "abc"
BadIntKeys == { <<"a", "b", "c">> }

\* values float() does not take
BadValues == { Text, Null }

----------------------------------------------------------------------------
(* A SimpleRLLoop on its own: no cart, no orchestrator, no second instance *)

\* self.restaurant_id = None
None == 0

\* no call of HybridOrchestrator.process_user_input is under way
NoChain == [mode |-> "none", secondary |-> FALSE, pc |-> "idle", stack |-> <<>>,
            error |-> "none", inputs |-> 0, force_model |-> "none", is_complex |-> FALSE]

\* no orchestrator
NoSession == [class |-> "none", user_id |-> 0]

\* no update call recorded
NoTrail == [start |-> EmptyStore, calls |-> <<>>, saved |-> {}]

EnvIdle ==
    /\ cart_items = <<>>
    /\ restaurant_id = None
    /\ orders = <<>>
    /\ session = NoSession
    /\ peer = EmptyStore
    /\ chain = NoChain
    /\ trail = NoTrail

----------------------------------------------------------------------------
(* Calls *)

\* what the last call did: its name, whether an exception reached the caller, for
\* record_order_completed the reward, items_count and order_total it returns, and for
\* a read or record_recommendation_shown the user and list given, the random values
\* drawn and the value returned
Returned(op) ==
    [op |-> op, raised |-> FALSE, reward |-> 0, items_count |-> 0, order_total |-> 0,
     user |-> 0, given |-> <<>>, draw |-> 0, sample |-> <<>>, out |-> <<>>]

SetStore(st) ==
    /\ q_values' = st.q
    /\ user_preferences' = st.prefs
    /\ item_popularity' = st.pop

CallRecordItemSelected ==
    /\ n_calls < MaxCalls
    /\ \E u \in Users, i \in Items : SetStore(RecordItemSelected(Current, u, i))
    /\ ret' = Returned("record_item_selected")
    /\ n_calls' = n_calls + 1
    /\ UNCHANGED env
    /\ UNCHANGED <<state_action_history, file, written, tamper, n_io>>

CallRecordOrderCompleted ==
    /\ n_calls < MaxCalls
    /\ \E u \in Users, order \in Orders :
          /\ SetStore(RecordOrderCompleted(Current, u, order))
          /\ ret' = [Returned("record_order_completed") EXCEPT
                        !.reward = Reward(order),
                        !.items_count = Len(order.items),
                        !.order_total = order.total]
    /\ n_calls' = n_calls + 1
    /\ UNCHANGED env
    /\ UNCHANGED <<state_action_history, file, written, tamper, n_io>>

CallRecordUserFeedback ==
    /\ n_calls < MaxCalls
    /\ \E u \in Users, i \in Items, score \in FeedbackScores :
          SetStore(RecordUserFeedback(Current, u, i, score))
    /\ ret' = Returned("record_user_feedback")
    /\ n_calls' = n_calls + 1
    /\ UNCHANGED env
    /\ UNCHANGED <<state_action_history, file, written, tamper, n_io>>

\* self.state_action_history.append(state_action)
Shown(h, u, recs) == Append(h, ShownRecord(h, u, recs))

\* record_recommendation_shown; it returns the new record's state_id
CallRecordRecommendationShown ==
    /\ n_calls < MaxCalls
    /\ \E u \in Users, recs \in RecLists :
          /\ state_action_history' = Shown(state_action_history, u, recs)
          /\ ret' = [Returned("record_recommendation_shown") EXCEPT
                        !.user = u,
                        !.given = recs,
                        !.out = <<ShownRecord(state_action_history, u, recs).state_id>>]
    /\ n_calls' = n_calls + 1
    /\ UNCHANGED env
    /\ UNCHANGED <<q_values, user_preferences, item_popularity, file, written, tamper, n_io>>

\* get_personalized_recommendations, for each value random.random() and random.sample
\* can give
CallGetPersonalizedRecommendations ==
    /\ n_calls < MaxCalls
    /\ \E u \in Users, items \in CandidateLists, draw \in Draws :
          \E sample \in (IF Explores(draw, Len(items)) THEN Samples(Len(items))
                         ELSE {<<>>}) :
              /\ user_preferences' = AfterRead(user_preferences, u)
              /\ ret' = [Returned("get_personalized_recommendations") EXCEPT
                            !.user = u,
                            !.given = items,
                            !.draw = draw,
                            !.sample = sample,
                            !.out = Recommendations(Current, u, items, draw, sample)]
    /\ n_calls' = n_calls + 1
    /\ UNCHANGED env
    /\ UNCHANGED <<q_values, item_popularity, state_action_history, file, written,
                   tamper, n_io>>

\* get_state_summary
CallGetStateSummary ==
    /\ n_calls < MaxCalls
    /\ \E u \in Users :
          /\ user_preferences' = AfterRead(user_preferences, u)
          /\ ret' = [Returned("get_state_summary") EXCEPT
                        !.user = u,
                        !.out = <<StateSummary(user_preferences, state_action_history, u)>>]
    /\ n_calls' = n_calls + 1
    /\ UNCHANGED env
    /\ UNCHANGED <<q_values, item_popularity, state_action_history, file, written,
                   tamper, n_io>>

\* save_state without its try ... except
SaveRaisesUncaught(failed) == failed

\* save_state: whether an exception reaches the caller when the write fails; the
\* whole body is inside try ... except Exception
SaveRaises(failed) == FALSE

\* load_state: whether an exception reaches the caller; FileNotFoundError,
\* JSONDecodeError and every other Exception are caught
LoadRaises(f) == FALSE

\* __init__ : a new instance (a new process); the file stays as it is
CallInit ==
    /\ n_io < MaxIO
    /\ SetStore(EmptyStore)
    /\ state_action_history' = <<>>
    /\ ret' = Returned("__init__")
    /\ n_io' = n_io + 1
    /\ UNCHANGED env
    /\ UNCHANGED <<file, written, tamper, n_calls>>

\* save_state, the write going through
CallSaveState ==
    /\ n_io < MaxIO
    /\ file' = SaveDoc(Current)
    /\ written' = Current
    /\ tamper' = NoTamper
    /\ ret' = [Returned("save_state") EXCEPT !.raised = SaveRaises(FALSE)]
    /\ n_io' = n_io + 1
    /\ UNCHANGED env
    /\ UNCHANGED <<q_values, user_preferences, item_popularity, state_action_history, n_calls>>

\* save_state, open() failing: the exception is caught and the file is as before
CallSaveStateOpenFails ==
    /\ n_io < MaxIO
    /\ ret' = [Returned("save_state") EXCEPT !.raised = SaveRaises(TRUE)]
    /\ n_io' = n_io + 1
    /\ UNCHANGED env
    /\ UNCHANGED <<q_values, user_preferences, item_popularity, state_action_history,
                   file, written, tamper, n_calls>>

\* save_state, json.dump failing after open(filepath, 'w') has truncated the file:
\* the exception is caught and what is left is not a JSON document
CallSaveStateWriteFails ==
    /\ n_io < MaxIO
    /\ file' = Garbage
    /\ written' = EmptyStore
    /\ tamper' = NoTamper
    /\ ret' = [Returned("save_state") EXCEPT !.raised = SaveRaises(TRUE)]
    /\ n_io' = n_io + 1
    /\ UNCHANGED env
    /\ UNCHANGED <<q_values, user_preferences, item_popularity, state_action_history, n_calls>>

\* load_state
CallLoadState ==
    /\ n_io < MaxIO
    /\ SetStore(LoadState(Current, file))
    /\ ret' = [Returned("load_state") EXCEPT !.raised = LoadRaises(file)]
    /\ n_io' = n_io + 1
    /\ UNCHANGED env
    /\ UNCHANGED <<state_action_history, file, written, tamper, n_calls>>

----------------------------------------------------------------------------
(* The file changed outside the program: one entry, one section, or the whole *)
(* document of a file that save_state wrote is damaged, once per written file *)

Edited(f, t) ==
    /\ file.kind = "doc"
    /\ tamper = NoTamper
    /\ file' = f
    /\ tamper' = t
    /\ ret' = Returned("file edited")
    /\ UNCHANGED env
    /\ UNCHANGED <<q_values, user_preferences, item_popularity, state_action_history,
                   written, n_calls, n_io>>

EditQKey ==
    \E at \in 1..Len(file.q.entries), bad \in BadQKeys :
        Edited([file EXCEPT !.q.entries[at].k = bad], Tamper("q_key", at, 0))

EditQValue ==
    \E at \in 1..Len(file.q.entries), bad \in BadValues :
        Edited([file EXCEPT !.q.entries[at].v = bad], Tamper("q_value", at, 0))

EditPopKey ==
    \E at \in 1..Len(file.pop.entries), bad \in BadIntKeys :
        Edited([file EXCEPT !.pop.entries[at].k = bad], Tamper("pop_key", at, 0))

EditPopValue ==
    \E at \in 1..Len(file.pop.entries), bad \in BadValues :
        Edited([file EXCEPT !.pop.entries[at].v = bad], Tamper("pop_value", at, 0))

EditPrefUserKey ==
    \E at \in 1..Len(file.prefs.entries), bad \in BadIntKeys :
        Edited([file EXCEPT !.prefs.entries[at].k = bad], Tamper("pref_user_key", at, 0))

EditPrefUser ==
    \E at \in 1..Len(file.prefs.entries) :
        Edited([file EXCEPT !.prefs.entries[at].v = NotObj], Tamper("pref_user", at, 0))

EditPrefItemKey ==
    \E at \in 1..Len(file.prefs.entries) :
        \E sub \in 1..Len(file.prefs.entries[at].v.entries), bad \in BadIntKeys :
            Edited([file EXCEPT !.prefs.entries[at].v.entries[sub].k = bad],
                   Tamper("pref_item_key", at, sub))

EditPrefItemValue ==
    \E at \in 1..Len(file.prefs.entries) :
        \E sub \in 1..Len(file.prefs.entries[at].v.entries), bad \in BadValues :
            Edited([file EXCEPT !.prefs.entries[at].v.entries[sub].v = bad],
                   Tamper("pref_item_value", at, sub))

EditSection ==
    \E sec \in {NotObj, Missing} :
        \/ Edited([file EXCEPT !.q = sec], Tamper("q_section", 0, 0))
        \/ Edited([file EXCEPT !.prefs = sec], Tamper("prefs_section", 0, 0))
        \/ Edited([file EXCEPT !.pop = sec], Tamper("pop_section", 0, 0))

EditTop == Edited(NotDict, Tamper("top", 0, 0))

----------------------------------------------------------------------------

Init ==
    /\ q_values = <<>>
    /\ user_preferences = <<>>
    /\ item_popularity = <<>>
    /\ state_action_history = <<>>
    /\ file = NoFile
    /\ written = EmptyStore
    /\ tamper = NoTamper
    /\ ret = Returned("__init__")
    /\ n_calls = 0
    /\ n_io = 0
    /\ EnvIdle

Next ==
    \/ CallRecordItemSelected
    \/ CallRecordOrderCompleted
    \/ CallRecordUserFeedback

\* Any sequence of at most MaxCalls record_* calls on a new instance
Spec == Init /\ [][Next]_vars

----------------------------------------------------------------------------
(* Persistence: an instance that has recorded some events is saved, constructed *)
(* anew and loaded, with the file possibly damaged in between                   *)

\* user 1 has ordered items 2 and 21
AfterOrder == RecordOrderCompleted(EmptyStore, 1, OrderTwo)

\* then user 12 has selected item 21 and rated item 2
AfterTwoUsers == RecordUserFeedback(RecordItemSelected(AfterOrder, 12, 21), 12, 2, Tenths(45))

\* user 12 has ordered four items after selecting one of them
AfterFour == RecordOrderCompleted(RecordItemSelected(EmptyStore, 12, 3), 12, OrderFour)

\* the stores persistence starts from, each built by the update rules
Populated == {EmptyStore, AfterOrder, AfterTwoUsers, AfterFour}

\* the histories persistence starts from
Histories == {<<>>, <<ShownRecord(<<>>, 1, <<Rec(2, "a")>>)>>}

InitFile ==
    /\ \E st \in Populated :
          /\ q_values = st.q
          /\ user_preferences = st.prefs
          /\ item_popularity = st.pop
    /\ state_action_history \in Histories
    /\ file = NoFile
    /\ written = EmptyStore
    /\ tamper = NoTamper
    /\ ret = Returned("record calls")
    /\ n_calls = 0
    /\ n_io = 0
    /\ EnvIdle

NextFile ==
    \/ CallInit
    \/ CallSaveState
    \/ CallSaveStateOpenFails
    \/ CallSaveStateWriteFails
    \/ CallLoadState
    \/ EditQKey
    \/ EditQValue
    \/ EditPopKey
    \/ EditPopValue
    \/ EditPrefUserKey
    \/ EditPrefUser
    \/ EditPrefItemKey
    \/ EditPrefItemValue
    \/ EditSection
    \/ EditTop

SpecFile == InitFile /\ [][NextFile]_vars

----------------------------------------------------------------------------
(* Recommendations: an instance that has recorded some events, or a new one that *)
(* has loaded a missing file, is asked once for recommendations or a summary     *)

InitRec ==
    /\ \E st \in Populated :
          /\ q_values = st.q
          /\ user_preferences = st.prefs
          /\ item_popularity = st.pop
    /\ state_action_history \in Histories
    /\ file = NoFile
    /\ written = EmptyStore
    /\ tamper = NoTamper
    /\ ret = Returned("record calls")
    /\ n_calls = MaxCalls - 1
    /\ n_io = 0
    /\ EnvIdle

NextRec ==
    \/ CallInit
    \/ CallLoadState
    \/ CallGetPersonalizedRecommendations
    \/ CallGetStateSummary

SpecRec == InitRec /\ [][NextRec]_vars

----------------------------------------------------------------------------
(* Every operation of an instance: two calls and one save or load, in any order, *)
(* on an instance that has recorded some events                                  *)

\* the stores the operations start from: each holds scores of several items
Seasoned == {AfterTwoUsers, AfterFour}

InitOps ==
    /\ \E st \in Seasoned :
          /\ q_values = st.q
          /\ user_preferences = st.prefs
          /\ item_popularity = st.pop
    /\ state_action_history \in Histories
    /\ file = NoFile
    /\ written = EmptyStore
    /\ tamper = NoTamper
    /\ ret = Returned("record calls")
    /\ n_calls = MaxCalls - 2
    /\ n_io = MaxIO - 1
    /\ EnvIdle

NextOps ==
    \/ CallRecordItemSelected
    \/ CallRecordOrderCompleted
    \/ CallRecordUserFeedback
    \/ CallRecordRecommendationShown
    \/ CallGetPersonalizedRecommendations
    \/ CallGetStateSummary
    \/ CallSaveState
    \/ CallSaveStateOpenFails
    \/ CallSaveStateWriteFails
    \/ CallLoadState

SpecOps == InitOps /\ [][NextOps]_vars

----------------------------------------------------------------------------
(* Properties of the update rules, checked under Spec *)

\* the preference weight of (u, i), 0 if absent
PrefOf(p, u, i) == Get(Get(p, u, <<>>), i, 0)

\* how many line items of the order carry item id
LineCount(order, id) ==
    Cardinality({n \in 1..Len(order.items) : order.items[n].item_id = id})

RECURSIVE QuantitySum(_, _)
\* the quantities of the lines that carry item id, added up
QuantitySum(lines, id) ==
    IF lines = <<>> THEN 0
    ELSE (IF Head(lines).item_id = id THEN Head(lines).quantity ELSE 0)
         + QuantitySum(Tail(lines), id)

\* between the current store and st, the Q-value of (u, i) has gained dq, its
\* preference weight dp and the popularity of i dpop
GainedBy(st, u, i, dq, dp, dpop) ==
    /\ Get(st.q, <<u, i>>, 0) = Get(q_values, <<u, i>>, 0) + dq
    /\ PrefOf(st.prefs, u, i) = PrefOf(user_preferences, u, i) + dp
    /\ Get(st.pop, i, 0) = Get(item_popularity, i, 0) + dpop

\* C2: from any store, n calls of record_item_selected(U, I) raise the Q-value of
\* (U, I) by n*0.1, its preference weight by n*0.2 and the popularity of I by n*0.1
C2_SelectedNTimes ==
    \A u \in Users, i \in Items, n \in 0..MaxRepeat :
        GainedBy(SelectTimes(Current, u, i, n), u, i, n * Tenths(1), n * Tenths(2), n * Tenths(1))

\* an item has been selected twice by the same user and by nobody else
C2_Witness ==
    /\ ret.op = "record_item_selected"
    /\ n_calls = 2
    /\ \E u \in Users, i \in Items :
          /\ Get(q_values, <<u, i>>, 0) = 2 * Tenths(1)
          /\ PrefOf(user_preferences, u, i) = 2 * Tenths(2)
          /\ Get(item_popularity, i, 0) = 2 * Tenths(1)

\* orders the reward is computed for: those recorded, an order of one item and
\* total 100, and one of four items and total 500
OrderCases ==
    Orders \cup { [items |-> <<Line(2, 1)>>, total |-> 100],
                  [items |-> <<Line(2, 1), Line(3, 1), Line(21, 1), Line(40, 1)>>,
                   total |-> 500] }

\* C3: the reward is 1.0, plus 0.5 when the total is above 500, plus 0.3 when there
\* are more than 3 line items: what record_order_completed returns, and for every
\* order among the inputs
C3_OrderReward ==
    /\ ret.op = "record_order_completed" =>
          ret.reward = Tenths(10)
                       + (IF ret.order_total > 500 THEN Tenths(5) ELSE 0)
                       + (IF ret.items_count > 3 THEN Tenths(3) ELSE 0)
    /\ \A order \in OrderCases :
          /\ (order.total = 600 /\ Len(order.items) = 4) => Reward(order) = Tenths(18)
          /\ (order.total = 100 /\ Len(order.items) = 1) => Reward(order) = Tenths(10)
          /\ (order.total = 500 /\ Len(order.items) = 3) => Reward(order) = Tenths(10)
          /\ (order.total = 500 /\ Len(order.items) = 4) => Reward(order) = Tenths(13)
          /\ (order.total > 500 /\ Len(order.items) <= 3) => Reward(order) = Tenths(15)

\* an order of 4 line items and total 600 has been rewarded with 1.8
C3_Witness ==
    /\ ret.op = "record_order_completed"
    /\ ret.order_total = 600
    /\ ret.items_count = 4
    /\ ret.reward = Tenths(18)

\* in st every line item of the order has gained the whole reward in Q-value and in
\* preference weight, and quantity*0.5 in popularity
CreditedPerLine(st, u, order) ==
    \A n \in 1..Len(order.items) :
        LET id == order.items[n].item_id
        IN  GainedBy(st, u, id,
                     LineCount(order, id) * Reward(order),
                     LineCount(order, id) * Reward(order),
                     QuantitySum(order.items, id) * Tenths(5))

\* in st items 2 (qty 2) and 21 (qty 1) of an order of total 600 have gained 1.5 each,
\* and 1.0 and 0.5 in popularity
TwoItemExample(st, u) ==
    /\ GainedBy(st, u, 2, Tenths(15), Tenths(15), Tenths(10))
    /\ GainedBy(st, u, 21, Tenths(15), Tenths(15), Tenths(5))

\* C4: from any store, record_order_completed(U, order) adds the whole reward of the
\* order to the Q-value and to the preference weight of (U, item) for each line item,
\* and quantity*0.5 to the item's popularity; items A (qty 2) and B (qty 1) with
\* total 600 gain 1.5 each in Q-value and 1.0 and 0.5 in popularity
C4_FullRewardPerLine ==
    /\ \A u \in Users, order \in Orders :
          CreditedPerLine(RecordOrderCompleted(Current, u, order), u, order)
    /\ \A u \in Users :
          TwoItemExample(RecordOrderCompleted(Current, u, OrderTwo), u)

\* the order of A (qty 2) and B (qty 1), total 600, has been recorded on a new store
C4_Witness ==
    /\ ret.op = "record_order_completed"
    /\ n_calls = 1
    /\ \E u \in Users :
          /\ Get(q_values, <<u, 2>>, 0) = Tenths(15)
          /\ Get(q_values, <<u, 21>>, 0) = Tenths(15)
          /\ PrefOf(user_preferences, u, 2) = Tenths(15)
          /\ Get(item_popularity, 2, 0) = Tenths(10)
          /\ Get(item_popularity, 21, 0) = Tenths(5)

\* scores the feedback rule is applied to: those recorded, and 0, 1.0, 2.0 and 5.0
ScoreCases == FeedbackScores \cup { 0, Tenths(10), Tenths(20), Tenths(50) }

\* a score f <= 1 adds f*alpha to the Q-value and f to the preference weight of
\* (u, i), and leaves the popularity as it is
AddsDirectly(u, i, f) ==
    LET st == RecordUserFeedback(Current, u, i, f)
    IN  /\ Get(st.q, <<u, i>>, 0) = Get(q_values, <<u, i>>, 0) + Mul(f, Tenths(1))
        /\ PrefOf(st.prefs, u, i) = PrefOf(user_preferences, u, i) + f
        /\ st.pop = item_popularity

\* C5 as stated: for every score s > 1, record_user_feedback(U, I, s) has the effect
\* of record_user_feedback(U, I, s/5); a score f <= 1 adds f*alpha and f
C5_AnyScoreAboveOne ==
    \A u \in Users, i \in Items, s \in ScoreCases :
        /\ s > Unit =>
              RecordUserFeedback(Current, u, i, s)
                  = RecordUserFeedback(Current, u, i, s \div 5)
        /\ s <= Unit => AddsDirectly(u, i, s)

\* C5 amended: for every score s with 1 < s <= 5, record_user_feedback(U, I, s) has
\* the effect of record_user_feedback(U, I, s/5); a score f <= 1 adds f*alpha and f
C5_ScoreUpToFive ==
    \A u \in Users, i \in Items, s \in ScoreCases :
        /\ (s > Unit /\ s <= 5 * Unit) =>
              RecordUserFeedback(Current, u, i, s)
                  = RecordUserFeedback(Current, u, i, s \div 5)
        /\ s <= Unit => AddsDirectly(u, i, s)

\* a score of 4.5 (or 0.9) has been recorded on a new store
C5_Witness ==
    /\ ret.op = "record_user_feedback"
    /\ n_calls = 1
    /\ \E u \in Users, i \in Items :
          /\ PrefOf(user_preferences, u, i) = Tenths(9)
          /\ Get(q_values, <<u, i>>, 0) = Mul(Tenths(9), Tenths(1))

\* C6: for every score above 1, what record_user_feedback adds to the preference
\* weight lies in [0, 1], and what it adds to the Q-value in [0, alpha]
C6_NormalizedWithinUnit ==
    \A u \in Users, i \in Items, s \in ScoreCases :
        s > Unit =>
            LET st == RecordUserFeedback(Current, u, i, s)
                dp == PrefOf(st.prefs, u, i) - PrefOf(user_preferences, u, i)
                dq == Get(st.q, <<u, i>>, 0) - Get(q_values, <<u, i>>, 0)
            IN  /\ 0 <= dp /\ dp <= Unit
                /\ 0 <= dq /\ dq <= Tenths(1)

----------------------------------------------------------------------------
(* Properties of save_state and load_state, checked under SpecFile *)

\* the same (key, value) pairs in each of the three mappings
SameEntries(a, b) ==
    /\ Pairs(a.q) = Pairs(b.q)
    /\ PrefTriples(a.prefs) = PrefTriples(b.prefs)
    /\ Pairs(a.pop) = Pairs(b.pop)

\* the last call was load_state, of the file as it is now
Loaded == ret.op = "load_state"

\* C1: load_state of a file that save_state wrote, undamaged, gives the mappings the
\* (key, value) pairs they had when they were saved; and saving the current mappings
\* and loading them into a new instance gives back their (key, value) pairs
C1_RoundTrip ==
    /\ (Loaded /\ file.kind = "doc" /\ tamper = NoTamper) => SameEntries(Current, written)
    /\ SameEntries(LoadState(EmptyStore, SaveDoc(Current)), Current)

\* two users' scores have been saved and loaded again
C1_Witness ==
    /\ Loaded
    /\ file.kind = "doc"
    /\ tamper = NoTamper
    /\ written = AfterTwoUsers
    /\ Current = AfterTwoUsers
    /\ state_action_history = <<>>
    /\ n_io = 3

\* a file load_state cannot read as a document: none, not JSON, or not an object
Unreadable(f) == f.kind \in {"absent", "garbage", "other"}

\* C7: after load_state of a missing or unparseable file no exception has reached the
\* caller and the three mappings are empty, whatever they held before
C7_FailedLoadLeavesEmpty ==
    (Loaded /\ Unreadable(file)) => (~ret.raised /\ Current = EmptyStore)

\* the (key, value) pairs of d without the entry at position at
PairsExcept(d, at) == {<<d[n].k, d[n].v>> : n \in (1..Len(d)) \ {at}}

\* C8: after load_state of a file in which one key of q_values was made malformed, no
\* exception has reached the caller, q_values holds every other saved entry with
\* its value, and user_preferences and item_popularity hold all of theirs
C8_BadQKeySkipped ==
    (Loaded /\ tamper.what = "q_key") =>
        /\ ~ret.raised
        /\ Pairs(q_values) = PairsExcept(written.q, tamper.at)
        /\ PrefTriples(user_preferences) = PrefTriples(written.prefs)
        /\ Pairs(item_popularity) = Pairs(written.pop)

\* a file with one bad key among four q_values entries of two users has been loaded
C8_Witness ==
    /\ Loaded
    /\ tamper.what = "q_key"
    /\ written = AfterTwoUsers
    /\ Len(q_values) = Len(written.q) - 1
    /\ Len(q_values) >= 2

\* the preference triples of p without item number sub of user number at
TriplesExcept(p, at, sub) ==
    PrefTriples(p) \ {<<p[at].k, p[at].v[sub].k, p[at].v[sub].v>>}

\* C9: after load_state of a file in which one item key or value of one user's
\* preferences, or one key or value of item_popularity, was made malformed, no
\* exception has reached the caller and only that entry is missing: every other
\* entry, the user's other items included, has its saved value
C9_OneBadEntrySkipped ==
    /\ (Loaded /\ tamper.what \in {"pref_item_key", "pref_item_value"}) =>
          /\ ~ret.raised
          /\ Pairs(q_values) = Pairs(written.q)
          /\ PrefTriples(user_preferences)
                = TriplesExcept(written.prefs, tamper.at, tamper.sub)
          /\ Pairs(item_popularity) = Pairs(written.pop)
    /\ (Loaded /\ tamper.what \in {"pop_key", "pop_value"}) =>
          /\ ~ret.raised
          /\ Pairs(q_values) = Pairs(written.q)
          /\ PrefTriples(user_preferences) = PrefTriples(written.prefs)
          /\ Pairs(item_popularity) = PairsExcept(written.pop, tamper.at)

\* C10: a save_state call, whether its write goes through or fails, raises nothing
\* to its caller and leaves the three mappings and the history as they were
C10_SaveChangesNothing ==
    [][ret'.op = "save_state" =>
          /\ ~ret'.raised
          /\ q_values' = q_values
          /\ user_preferences' = user_preferences
          /\ item_popularity' = item_popularity
          /\ state_action_history' = state_action_history]_vars

\* save_state has failed while writing, on an instance with scores and a history
C10_Witness ==
    /\ ret.op = "save_state"
    /\ file.kind = "garbage"
    /\ Current = AfterFour
    /\ state_action_history # <<>>

\* what load_state gives when it reads all three sections of a document to the end
WholeFile(f) ==
    Store(LoadQ(SectionOrEmpty(f.q).entries),
          LoadPrefs(<<>>, SectionOrEmpty(f.prefs).entries),
          LoadFlat(SectionOrEmpty(f.pop).entries))

\* a document whose three sections, where present, are objects
WellSectioned(f) ==
    /\ f.kind = "doc"
    /\ SectionOrEmpty(f.q).kind = "object"
    /\ SectionOrEmpty(f.prefs).kind = "object"
    /\ SectionOrEmpty(f.pop).kind = "object"

\* C11: a load_state call either leaves all three mappings as they were, or leaves
\* all three as read from the file; never some replaced or reset and others kept
C11_LoadAllOrNothing ==
    [][ret'.op = "load_state" =>
          \/ /\ q_values' = q_values
             /\ user_preferences' = user_preferences
             /\ item_popularity' = item_popularity
          \/ /\ WellSectioned(file)
             /\ q_values' = WholeFile(file).q
             /\ user_preferences' = WholeFile(file).prefs
             /\ item_popularity' = WholeFile(file).pop]_vars

----------------------------------------------------------------------------
(* Properties of the reads, checked under SpecRec *)

\* the last call was get_personalized_recommendations
Recommended == ret.op = "get_personalized_recommendations"

\* C12: get_personalized_recommendations raises nothing and returns at most 5 items,
\* exactly n items for n <= 3 candidates, and none for no candidates
C12_AtMostFive ==
    Recommended =>
        /\ ~ret.raised
        /\ Len(ret.out) <= 5
        /\ Len(ret.given) <= 3 => Len(ret.out) = Len(ret.given)
        /\ ret.given = <<>> => ret.out = <<>>

\* six candidates were given, on a store with scores, and five came back
C12_Witness ==
    /\ Recommended
    /\ Len(ret.given) = 6
    /\ Len(ret.out) = 5
    /\ q_values # <<>>

\* the candidates behind a returned list: item_id and name of each item, in order
Candidates(out) ==
    [n \in 1..Len(out) |-> [item_id |-> out[n].item_id, name |-> out[n].name]]

\* the exploration branch was taken in the last call
Explored == ret.draw < Tenths(1) /\ Len(ret.given) > 3

\* nothing is stored and there is no state file: a new instance, also after
\* load_state of the missing file
ColdStart == Current = EmptyStore /\ file.kind = "absent"

\* C13 as stated: on a cold start get_personalized_recommendations returns the first
\* min(5, n) candidates in their input order, for every candidate list
C13_ColdStartInputOrder ==
    (Recommended /\ ColdStart) => Candidates(ret.out) = Take(ret.given, 5)

\* C13 amended: on a cold start the result is the first min(5, n) candidates in input
\* order when the exploration branch is not taken; when it is taken, it is the first
\* 3 candidates followed by the 2 candidates random.sample drew
C13_ColdStartUnlessExploring ==
    (Recommended /\ ColdStart) =>
        IF Explored
        THEN /\ Len(ret.out) = 5
             /\ Take(Candidates(ret.out), 3) = Take(ret.given, 3)
             /\ \A n \in 1..2 : Candidates(ret.out)[3 + n] = ret.given[ret.sample[n]]
        ELSE Candidates(ret.out) = Take(ret.given, 5)

\* a new instance has loaded the missing file and six candidates came back as the
\* first five, the draw being at epsilon
C13_Witness ==
    /\ Recommended
    /\ ColdStart
    /\ n_io = 2
    /\ ~Explored
    /\ Len(ret.given) = 6
    /\ Candidates(ret.out) = Take(ret.given, 5)

\* what the scoring loop gives for the last call's user and candidates
LastScored == ScoredItems(Current, ret.user, ret.given)

\* the place of candidate n in descending order of rl_score, candidates of equal
\* score in input order
Rank(sc, n) ==
    1 + Cardinality({m \in 1..Len(sc) :
                        \/ sc[m].rl_score > sc[n].rl_score
                        \/ sc[m].rl_score = sc[n].rl_score /\ m < n})

\* C14: when the exploration branch is not taken, the result is the first min(5, n)
\* of the candidates in descending order of rl_score, equal scores in input order
C14_SortedStable ==
    (Recommended /\ ~Explored) =>
        /\ Len(ret.out) = (IF Len(ret.given) < 5 THEN Len(ret.given) ELSE 5)
        /\ \A n \in 1..Len(ret.given) :
              Rank(LastScored, n) <= 5 => ret.out[Rank(LastScored, n)] = LastScored[n]

\* without exploration, four candidates came back with a scored one first and the
\* two never scored ones, of equal score, last and in input order
C14_Witness ==
    /\ Recommended
    /\ ~Explored
    /\ Len(ret.given) = 4
    /\ ret.given[1].item_id = 5 /\ ret.given[3].item_id = 6
    /\ ret.out[1].rl_score > 0
    /\ ret.out[3].item_id = 5 /\ ret.out[4].item_id = 6
    /\ ret.out[3].rl_score = ret.out[4].rl_score

\* the exploration branch was taken in the last call, as the call itself decided
TookExploration == Recommended /\ ret.sample # <<>>

\* C15: the exploration branch is taken only with more than 3 candidates, and then
\* the result is the 3 highest-scoring candidates in descending order followed by
\* 2 candidates of the full list
C15_ExplorationShape ==
    TookExploration =>
        /\ Len(ret.given) > 3
        /\ Len(ret.out) = 5
        /\ \A n \in 1..Len(ret.given) :
              Rank(LastScored, n) <= 3 => ret.out[Rank(LastScored, n)] = LastScored[n]
        /\ \A k \in 4..5 : \E n \in 1..Len(ret.given) : ret.out[k] = LastScored[n]

\* exploration on six candidates: the fourth item returned scores higher than the third
C15_Witness ==
    /\ TookExploration
    /\ Len(ret.given) = 6
    /\ ret.out[4].rl_score > ret.out[3].rl_score

\* C16: every item returned carries the stored Q-value and preference weight of
\* (user, item), 0 if absent, and rl_score = 0.4*q_value + 0.4*preference
\* + 0.2*(0.1*popularity), i.e. 50*rl_score = 20*q_value + 20*preference + popularity
C16_ScoreFormula ==
    Recommended =>
        \A n \in 1..Len(ret.out) :
            LET item == ret.out[n]
            IN  /\ item.q_value = Get(q_values, <<ret.user, item.item_id>>, 0)
                /\ item.preference = PrefOf(user_preferences, ret.user, item.item_id)
                /\ 50 * item.rl_score
                      = 20 * item.q_value + 20 * item.preference
                        + Get(item_popularity, item.item_id, 0)

\* an item with a Q-value, a larger preference weight and a popularity came back
\* first, and an item with no entry anywhere came back too, scored 0
C16_Witness ==
    /\ Recommended
    /\ Len(ret.out) >= 2
    /\ ret.out[1].q_value > 0
    /\ ret.out[1].preference > ret.out[1].q_value
    /\ Get(item_popularity, ret.out[1].item_id, 0) > 0
    /\ \E n \in 2..Len(ret.out) :
          /\ ret.out[n].q_value = 0
          /\ ret.out[n].preference = 0
          /\ ~Has(item_popularity, ret.out[n].item_id)
          /\ ret.out[n].rl_score = 0

\* C17: get_personalized_recommendations and get_state_summary leave the three
\* mappings and the history exactly as they were, also for a user or item that
\* has no entry
C17_ReadsChangeNothing ==
    [][ret'.op \in {"get_personalized_recommendations", "get_state_summary"} =>
          /\ q_values' = q_values
          /\ user_preferences' = user_preferences
          /\ item_popularity' = item_popularity
          /\ state_action_history' = state_action_history]_vars

\* a summary was asked for a user who has no entry, on a store that has entries
C17_Witness ==
    /\ ret.op = "get_state_summary"
    /\ user_preferences # <<>>
    /\ ~Has(user_preferences, ret.user)
    /\ ret.out[1].learned_items = 0

----------------------------------------------------------------------------
(* Properties of the history and of the store's keys, checked under SpecOps *)

\* h is the beginning of g
IsPrefix(h, g) == Len(h) <= Len(g) /\ SubSeq(g, 1, Len(h)) = h

\* C18: record_recommendation_shown appends exactly one record, with the user, the
\* item_id and name of at most the first 5 recommendations in the given order,
\* reward None and completed False, and returns an identifier no earlier record
\* has; every other operation leaves the history as it is
C18_HistoryAppendOnly ==
    [][/\ IsPrefix(state_action_history, state_action_history')
       /\ IF ret'.op = "record_recommendation_shown"
          THEN /\ Len(state_action_history') = Len(state_action_history) + 1
               /\ LET new == state_action_history'[Len(state_action_history')]
                      shown == IF Len(ret'.given) < 5 THEN Len(ret'.given) ELSE 5
                  IN  /\ new.user_id = ret'.user
                      /\ Len(new.recommendations) = shown
                      /\ \A n \in 1..shown :
                            new.recommendations[n]
                                = [item_id |-> ret'.given[n].item_id,
                                   name |-> ret'.given[n].name]
                      /\ new.reward = "None"
                      /\ new.completed = FALSE
                      /\ ret'.out = <<new.state_id>>
                      /\ \A n \in 1..Len(state_action_history) :
                            state_action_history[n].state_id # new.state_id
          ELSE state_action_history' = state_action_history]_vars

\* a list of six recommendations was recorded behind two earlier records
C18_Witness ==
    /\ ret.op = "record_recommendation_shown"
    /\ Len(ret.given) = 6
    /\ Len(state_action_history) = 3
    /\ Len(state_action_history[3].recommendations) = 5

\* the (user, item) keys of the two-level preference dict
PrefKeys(p) == {<<t[1], t[2]>> : t \in PrefTriples(p)}

\* C19: no call of record_item_selected, record_order_completed, record_user_feedback,
\* record_recommendation_shown, get_personalized_recommendations, get_state_summary
\* or save_state removes a key of q_values, user_preferences or item_popularity
C19_StoreOnlyGrows ==
    [][ret'.op # "load_state" =>
          /\ Keys(q_values) \subseteq Keys(q_values')
          /\ Keys(user_preferences) \subseteq Keys(user_preferences')
          /\ PrefKeys(user_preferences) \subseteq PrefKeys(user_preferences')
          /\ Keys(item_popularity) \subseteq Keys(item_popularity')]_vars

\* an order of two line items was recorded for a user who has preferences for four
\* items
C19_Witness ==
    /\ ret.op = "record_order_completed"
    /\ ret.items_count = 2
    /\ \E n \in 1..Len(user_preferences) : Len(user_preferences[n].v) = 4
    /\ Len(q_values) >= 4

----------------------------------------------------------------------------
(* Property of the update rules over time, checked under Spec *)

\* C20: no record_item_selected, record_order_completed or record_user_feedback call
\* lowers a stored Q-value, preference weight or popularity value
C20_ValuesNeverDecrease ==
    [][/\ \A k \in Keys(q_values) : Get(q_values', k, 0) >= Get(q_values, k, 0)
       /\ \A k \in PrefKeys(user_preferences) :
             PrefOf(user_preferences', k[1], k[2]) >= PrefOf(user_preferences, k[1], k[2])
       /\ \A k \in Keys(item_popularity) :
             Get(item_popularity', k, 0) >= Get(item_popularity, k, 0)]_vars

\* C21: after record_order_completed on a new instance every item of the order has
\* the order's reward as its Q-value and as its preference weight, also an item
\* that appears in more than one line item
C21_RewardOncePerItem ==
    (ret.op = "record_order_completed" /\ n_calls = 1) =>
        /\ \A n \in 1..Len(q_values) : q_values[n].v = ret.reward
        /\ \A t \in PrefTriples(user_preferences) : t[3] = ret.reward

\* C27: after any record_item_selected, record_order_completed and
\* record_user_feedback calls on a new instance, the (user, item) pairs with a
\* Q-value are the pairs with a preference weight
C27_SameKeys == Keys(q_values) = PrefKeys(user_preferences)

\* a rating and an order, by different users, have been recorded
C27_Witness ==
    /\ ret.op = "record_order_completed"
    /\ n_calls = 2
    /\ Len(user_preferences) = 2
    /\ \E n \in 1..Len(user_preferences) : Len(user_preferences[n].v) = 1
    /\ \E n \in 1..Len(q_values) : q_values[n].v < 0

----------------------------------------------------------------------------
(* Property of exploration, checked under SpecRec *)

\* the list holds the same element at two places
HasRepeat(s) == \E i \in 1..Len(s) : \E j \in (i + 1)..Len(s) : s[i] = s[j]

\* C22: an exploring call with exactly 4 candidates returns 5 items, one candidate
\* twice: the drawn items are not checked against the best three
C22_ExplorationRepeats ==
    (TookExploration /\ Len(ret.given) = 4) =>
        /\ Len(ret.out) = 5
        /\ HasRepeat(ret.out)

\* exploring with six candidates, the best item came back a second time as a drawn one
C22_Witness ==
    /\ TookExploration
    /\ Len(ret.given) = 6
    /\ Len(ret.out) = 5
    /\ ret.out[1].rl_score > 0
    /\ ret.out[5] = ret.out[1]

----------------------------------------------------------------------------
(* CartManager (src/cart_manager.py) and the tables it reads and writes *)

MaxCartCalls == 4

\* rows of menu_items: items 2, 21 and 40 are of restaurant 1 and item 3 of
\* restaurant 2; item 40 is not available
MenuItems ==
    { [item_id |-> 2, name |-> "a", price |-> 250, restaurant_id |-> 1, availability |-> TRUE],
      [item_id |-> 21, name |-> "b", price |-> 80, restaurant_id |-> 1, availability |-> TRUE],
      [item_id |-> 3, name |-> "c", price |-> 60, restaurant_id |-> 2, availability |-> TRUE],
      [item_id |-> 40, name |-> "d", price |-> 250, restaurant_id |-> 1, availability |-> FALSE] }

\* rows of restaurants
Restaurants ==
    { [restaurant_id |-> 1, name |-> "r1", minimum_order |-> 300, delivery_fee |-> 40],
      [restaurant_id |-> 2, name |-> "r2", minimum_order |-> 100, delivery_fee |-> 30] }

\* item_id given to add_item: the four rows and one id that has no row
ItemIds == {2, 3, 21, 40, 99}

Quantities == {1, 2}

\* execute_query of add_item: the available rows with this item_id, and no row when
\* the query fails (execute_query catches the exception and returns [])
AvailableRows(item_id, db_ok) ==
    IF db_ok THEN {m \in MenuItems : m.item_id = item_id /\ m.availability} ELSE {}

\* get_restaurant_by_id: the rows with this restaurant_id, none when the query fails
RestaurantRows(rid, db_ok) ==
    IF db_ok THEN {r \in Restaurants : r.restaurant_id = rid} ELSE {}

\* the dict appended to cart_items for a new item
NewLine(item, quantity) ==
    [item_id |-> item.item_id,
     item_name |-> item.name,
     restaurant_id |-> item.restaurant_id,
     quantity |-> quantity,
     unit_price |-> item.price,
     total_price |-> item.price * quantity]

\* the first line of the cart with this item_id, 0 when there is none
LineOf(items, item_id) ==
    IF \E n \in 1..Len(items) : items[n].item_id = item_id
    THEN CHOOSE n \in 1..Len(items) :
            /\ items[n].item_id = item_id
            /\ \A m \in 1..(n - 1) : items[m].item_id # item_id
    ELSE 0

\* add_item appending a line whether or not the item is in the cart
AddLineAlways(items, item, quantity) == Append(items, NewLine(item, quantity))

\* add_item, lines 57-72: the quantity of the existing line grows, or a line is appended
AddLine(items, item, quantity) ==
    LET n == LineOf(items, item.item_id)
    IN  IF n # 0
        THEN [items EXCEPT ![n].quantity = @ + quantity,
                           ![n].total_price = (items[n].quantity + quantity) * items[n].unit_price]
        ELSE Append(items, NewLine(item, quantity))

\* what a CartManager call leaves and returns
CartResult(items, rid, success, message) ==
    [cart_items |-> items, restaurant_id |-> rid, success |-> success, message |-> message]

\* add_item
AddItem(items, rid, item_id, quantity, db_ok) ==
    LET results == AvailableRows(item_id, db_ok)
    IN  IF results = {}
        THEN CartResult(items, rid, FALSE, "Item not found or unavailable")
        ELSE LET item == CHOOSE m \in results : TRUE
             IN  IF rid # None /\ rid # item.restaurant_id
                 THEN CartResult(items, rid, FALSE, "Cannot mix items from different restaurants")
                 ELSE CartResult(AddLine(items, item, quantity), item.restaurant_id, TRUE, "Added")

RECURSIVE Subtotal(_)
\* sum(item['total_price'] for item in self.cart_items)
Subtotal(items) == IF items = <<>> THEN 0 ELSE Head(items).total_price + Subtotal(Tail(items))

\* get_cart_state: the dict of an empty cart has no 'minimum_order' key
GetCartState(items, rid, db_ok) ==
    IF items = <<>>
    THEN [items |-> <<>>, subtotal |-> 0, delivery_fee |-> 0, total |-> 0,
          restaurant_id |-> None, minimum_order_met |-> FALSE]
    ELSE LET rows == RestaurantRows(rid, db_ok)
             delivery_fee == IF rows = {} THEN 0 ELSE (CHOOSE r \in rows : TRUE).delivery_fee
             minimum_order == IF rows = {} THEN 0 ELSE (CHOOSE r \in rows : TRUE).minimum_order
         IN  [items |-> items,
              subtotal |-> Subtotal(items),
              delivery_fee |-> delivery_fee,
              total |-> Subtotal(items) + delivery_fee,
              restaurant_id |-> rid,
              minimum_order |-> minimum_order,
              minimum_order_met |-> Subtotal(items) >= minimum_order]

\* the row create_order inserts; order_id is the next value of the serial column
OrderRow(rows, user_id, rid, order_items, total_amount) ==
    [order_id |-> Len(rows) + 1, user_id |-> user_id, restaurant_id |-> rid,
     order_items |-> order_items, total_amount |-> total_amount]

\* clear_cart without the reset of restaurant_id
ClearCartKeepsRestaurant(rid) == rid

\* clear_cart: what restaurant_id becomes
ClearCart(rid) == None

\* what the last CartManager call did
CartReturned(op, result) ==
    [op |-> op, raised |-> FALSE, success |-> result.success, message |-> result.message,
     minimum_order_met |-> FALSE]

\* add_item
CallAddItem ==
    /\ n_calls < MaxCartCalls
    /\ \E item_id \in ItemIds, quantity \in Quantities, db_ok \in BOOLEAN :
          LET result == AddItem(cart_items, restaurant_id, item_id, quantity, db_ok)
          IN  /\ cart_items' = result.cart_items
              /\ restaurant_id' = result.restaurant_id
              /\ ret' = CartReturned("add_item", result)
    /\ n_calls' = n_calls + 1
    /\ UNCHANGED <<q_values, user_preferences, item_popularity, state_action_history,
                   file, written, tamper, n_io, orders, session, peer, chain, trail>>

\* clear_cart
CallClearCart ==
    /\ n_calls < MaxCartCalls
    /\ cart_items' = <<>>
    /\ restaurant_id' = ClearCart(restaurant_id)
    /\ ret' = CartReturned("clear_cart", CartResult(<<>>, None, TRUE, "None"))
    /\ n_calls' = n_calls + 1
    /\ UNCHANGED <<q_values, user_preferences, item_popularity, state_action_history,
                   file, written, tamper, n_io, orders, session, peer, chain, trail>>

\* CartManager.checkout: building the message of the first return reads
\* cart_state['minimum_order'], a KeyError when the cart is empty; create_order gives
\* an order id, or None when the insert fails
CallCheckout ==
    /\ n_calls < MaxCartCalls
    /\ \E user_id \in Users, db_ok \in BOOLEAN, created \in BOOLEAN :
          LET cart_state == GetCartState(cart_items, restaurant_id, db_ok)
              failed(message) == CartReturned("checkout",
                                    CartResult(cart_items, restaurant_id, FALSE, message))
          IN  IF ~cart_state.minimum_order_met
              THEN /\ ret' = IF "minimum_order" \in DOMAIN cart_state
                             THEN failed("Minimum order not met")
                             ELSE [failed("KeyError") EXCEPT !.raised = TRUE]
                   /\ UNCHANGED <<cart_items, restaurant_id, orders>>
              ELSE IF created
              THEN /\ orders' = Append(orders, OrderRow(orders, user_id, restaurant_id,
                                                        cart_items, cart_state.total))
                   /\ cart_items' = <<>>
                   /\ restaurant_id' = ClearCart(restaurant_id)
                   /\ ret' = [CartReturned("checkout",
                                 CartResult(<<>>, None, TRUE, "Order placed successfully"))
                              EXCEPT !.minimum_order_met = TRUE]
              ELSE /\ ret' = [failed("Failed to create order") EXCEPT
                                 !.minimum_order_met = TRUE]
                   /\ UNCHANGED <<cart_items, restaurant_id, orders>>
    /\ n_calls' = n_calls + 1
    /\ UNCHANGED <<q_values, user_preferences, item_popularity, state_action_history,
                   file, written, tamper, n_io, session, peer, chain, trail>>

\* CartManager.__init__: an empty cart
InitCart ==
    /\ q_values = <<>>
    /\ user_preferences = <<>>
    /\ item_popularity = <<>>
    /\ state_action_history = <<>>
    /\ file = NoFile
    /\ written = EmptyStore
    /\ tamper = NoTamper
    /\ ret = CartReturned("__init__", CartResult(<<>>, None, TRUE, "None"))
    /\ n_calls = 0
    /\ n_io = 0
    /\ EnvIdle

NextCart ==
    \/ CallAddItem
    \/ CallClearCart
    \/ CallCheckout

\* Any sequence of at most MaxCartCalls calls on a new CartManager
SpecCart == InitCart /\ [][NextCart]_vars

\* the cart has at most one line per item_id, its lines are of restaurant_id, and
\* restaurant_id is None exactly when it is empty
CartWellFormed ==
    /\ \A n, m \in 1..Len(cart_items) : cart_items[n].item_id = cart_items[m].item_id => n = m
    /\ \A n \in 1..Len(cart_items) : cart_items[n].restaurant_id = restaurant_id
    /\ restaurant_id = None <=> cart_items = <<>>

\* C28: after every add_item, clear_cart and checkout the cart has at most one line per
\* item_id, every line is of the restaurant in restaurant_id and restaurant_id is None
\* exactly when the cart is empty; an add_item that returns success False leaves
\* cart_items and restaurant_id as they were
C28_CartInvariants ==
    [][/\ CartWellFormed'
       /\ (ret'.op = "add_item" /\ ~ret'.success) =>
              (cart_items' = cart_items /\ restaurant_id' = restaurant_id)]_vars

\* C28 witness: an item of another restaurant was rejected while the cart holds two
\* lines of restaurant 1, one of them added twice
C28_Witness ==
    /\ ret.op = "add_item"
    /\ ~ret.success
    /\ ret.message = "Cannot mix items from different restaurants"
    /\ Len(cart_items) = 2
    /\ \E n \in 1..2 : cart_items[n].quantity = 3 /\ cart_items[n].total_price = 3 * cart_items[n].unit_price

\* C29: whenever the minimum order is not met, the cart being empty included,
\* CartManager.checkout returns success False without raising, creates no order and
\* leaves the cart as it was
C29_CheckoutFailsQuietly ==
    [][(ret'.op = "checkout" /\ ~ret'.minimum_order_met) =>
          /\ ~ret'.raised
          /\ ~ret'.success
          /\ orders' = orders
          /\ cart_items' = cart_items
          /\ restaurant_id' = restaurant_id]_vars

----------------------------------------------------------------------------
(* LangChainOrchestrator and GeminiOrchestrator: one session, which owns a      *)
(* SimpleRLLoop loaded from the state file and a CartManager                     *)

MaxSessionCalls == 3

\* _find_item_id: the item_id of the first row search_menu_items gives, which is an
\* available item, or None
FoundItemIds == {m.item_id : m \in {x \in MenuItems : x.availability}} \cup {None}

\* formatted_items of checkout
FormattedItems(items) ==
    [n \in 1..Len(items) |->
        [item_id |-> items[n].item_id,
         name |-> items[n].item_name,
         quantity |-> items[n].quantity,
         price |-> items[n].unit_price,
         total_price |-> items[n].total_price]]

\* order_data of checkout
OrderData(cart_state) ==
    [items |-> FormattedItems(cart_state.items), total |-> cart_state.total]

\* the add path of process_user_input: record_item_selected is called with the item
\* found, before add_item and whatever add_item returns
SelectionOfAdd(st, u, item_id, result) == RecordItemSelected(st, u, item_id)

\* checkout calling record_order_completed whether or not create_order gave an id
RewardOfCheckoutAlways(st, u, order_id, cart_state) ==
    RecordOrderCompleted(st, u, OrderData(cart_state))

\* checkout, "if order_id:": the store after it
RewardOfCheckout(st, u, order_id, cart_state) ==
    IF order_id # None THEN RecordOrderCompleted(st, u, OrderData(cart_state)) ELSE st

\* checkout leaving the cart as it is after the order
CartAfterOrderKept(items) == items

\* checkout, self.cart.clear_cart() after the order
CartAfterOrder(items) == <<>>

\* what the last orchestrator call did: the calls it made on the store, the order
\* table and the cart, in their order, and what it returned
SessionReturned(op, success, message, calls) ==
    [op |-> op, raised |-> FALSE, success |-> success, message |-> message, calls |-> calls]

\* process_user_input with intent order_placement or add_to_cart
ProcessUserInput(class) ==
    /\ session.class = class
    /\ n_calls < MaxSessionCalls
    /\ \E item_id \in FoundItemIds, quantity \in Quantities, db_ok \in BOOLEAN :
          IF item_id = None
          THEN /\ ret' = SessionReturned("process_user_input", TRUE, "Item not found", <<>>)
               /\ UNCHANGED <<q_values, user_preferences, item_popularity, cart_items,
                              restaurant_id, trail>>
          ELSE LET result == AddItem(cart_items, restaurant_id, item_id, quantity, db_ok)
               IN  /\ SetStore(SelectionOfAdd(Current, session.user_id, item_id, result))
                   /\ trail' = [trail EXCEPT !.calls =
                                   IF SelectionOfAdd(Current, session.user_id, item_id, result)
                                      = Current
                                   THEN @ ELSE Append(@, "record_item_selected")]
                   /\ cart_items' = result.cart_items
                   /\ restaurant_id' = result.restaurant_id
                   /\ ret' = SessionReturned("process_user_input", result.success,
                                             result.message,
                                             <<"record_item_selected", "add_item">>)
    /\ n_calls' = n_calls + 1
    /\ UNCHANGED <<state_action_history, file, written, tamper, n_io, orders, session,
                   peer, chain>>

LangChainProcessUserInput == ProcessUserInput("langchain")

GeminiProcessUserInput == ProcessUserInput("gemini")

\* checkout of an orchestrator; save_state writes the file or fails at open()
OrchestratorCheckout(class) ==
    /\ session.class = class
    /\ n_calls < MaxSessionCalls
    /\ \E db_ok \in BOOLEAN, created \in BOOLEAN, write_ok \in BOOLEAN :
          LET cart_state == GetCartState(cart_items, restaurant_id, db_ok)
              order_id == IF created THEN Len(orders) + 1 ELSE None
              failed(message, calls) ==
                  /\ ret' = SessionReturned("checkout", FALSE, message, calls)
                  /\ UNCHANGED <<cart_items, restaurant_id, file, written, tamper>>
          IN  IF cart_state.items = <<>>
              THEN /\ failed("Cart is empty!", <<>>)
                   /\ UNCHANGED <<q_values, user_preferences, item_popularity, orders, trail>>
              ELSE IF ~cart_state.minimum_order_met
              THEN /\ failed("Need more", <<>>)
                   /\ UNCHANGED <<q_values, user_preferences, item_popularity, orders, trail>>
              ELSE LET st == RewardOfCheckout(Current, session.user_id, order_id, cart_state)
                   IN  /\ SetStore(st)
                       /\ trail' = [trail EXCEPT !.calls =
                                       IF st = Current THEN @
                                       ELSE Append(@, "record_order_completed")]
                       /\ IF order_id # None
                          THEN /\ orders' = Append(orders,
                                      OrderRow(orders, session.user_id, cart_state.restaurant_id,
                                               FormattedItems(cart_state.items), cart_state.total))
                               /\ IF write_ok
                                  THEN /\ file' = SaveDoc(st)
                                       /\ written' = st
                                       /\ tamper' = NoTamper
                                  ELSE UNCHANGED <<file, written, tamper>>
                               /\ cart_items' = CartAfterOrder(cart_items)
                               /\ restaurant_id' = IF CartAfterOrder(cart_items) = <<>>
                                                   THEN ClearCart(restaurant_id)
                                                   ELSE restaurant_id
                               /\ ret' = SessionReturned("checkout", TRUE, "Order placed",
                                            <<"create_order", "record_order_completed",
                                              "save_state", "clear_cart">>)
                          ELSE /\ failed("Failed to create order", <<"create_order">>)
                               /\ UNCHANGED orders
    /\ n_calls' = n_calls + 1
    /\ UNCHANGED <<state_action_history, n_io, session, peer, chain>>

LangChainCheckout == OrchestratorCheckout("langchain")

GeminiCheckout == OrchestratorCheckout("gemini")

\* what the state file holds when the session starts: nothing, or an earlier save
SavedBefore == {NoFile, SaveDoc(AfterOrder)}

\* __init__ of an orchestrator: SimpleRLLoop(), load_state(), CartManager(db)
InitSession ==
    /\ file \in SavedBefore
    /\ session \in [class : {"langchain", "gemini"}, user_id : Users]
    /\ q_values = LoadState(EmptyStore, file).q
    /\ user_preferences = LoadState(EmptyStore, file).prefs
    /\ item_popularity = LoadState(EmptyStore, file).pop
    /\ state_action_history = <<>>
    /\ written = LoadState(EmptyStore, file)
    /\ tamper = NoTamper
    /\ ret = SessionReturned("__init__", TRUE, "None", <<"load_state">>)
    /\ n_calls = 0
    /\ n_io = 0
    /\ cart_items = <<>>
    /\ restaurant_id = None
    /\ orders = <<>>
    /\ peer = EmptyStore
    /\ chain = NoChain
    /\ trail = [NoTrail EXCEPT !.start = LoadState(EmptyStore, file)]

NextSession ==
    \/ LangChainProcessUserInput
    \/ GeminiProcessUserInput
    \/ LangChainCheckout
    \/ GeminiCheckout

\* Any sequence of at most MaxSessionCalls add requests and checkouts of one session
SpecSession == InitSession /\ [][NextSession]_vars

\* the number of record_order_completed calls the session has made
RewardsApplied ==
    Cardinality({n \in 1..Len(trail.calls) : trail.calls[n] = "record_order_completed"})

\* C23: a checkout rewards an order only after create_order gave its id, then calls
\* save_state and then clears the cart; a checkout that fails leaves the three mappings
\* as they were; a checkout of an empty cart fails; so the session has applied exactly
\* one reward per row of the orders table
C23_OneRewardPerOrder ==
    [][/\ RewardsApplied' = Len(orders')
       /\ ret'.op = "checkout" =>
            /\ ret'.success =>
                 /\ Len(orders') = Len(orders) + 1
                 /\ Current' = RecordOrderCompleted(Current, session.user_id,
                                  [items |-> orders'[Len(orders')].order_items,
                                   total |-> orders'[Len(orders')].total_amount])
                 /\ ret'.calls = <<"create_order", "record_order_completed",
                                   "save_state", "clear_cart">>
                 /\ cart_items' = <<>>
                 /\ restaurant_id' = None
            /\ ~ret'.success => (Current' = Current /\ orders' = orders /\ file' = file)
            /\ cart_items = <<>> => ~ret'.success]_vars

\* C23 witness: the checkout repeated after a rewarded order finds the cart empty; the
\* file holds the rewarded store
C23_Witness ==
    /\ ret.op = "checkout"
    /\ ret.message = "Cart is empty!"
    /\ Len(orders) = 1
    /\ RewardsApplied = 1
    /\ file = SaveDoc(Current)
    /\ \E n \in 1..Len(q_values) : q_values[n].v >= Tenths(15)

\* C25: an add request whose add_item fails (no available row, or an item of another
\* restaurant than the cart's) leaves q_values, user_preferences and item_popularity as
\* they were
C25_FailedAddLearnsNothing ==
    [][(/\ ret'.op = "process_user_input"
        /\ ret'.calls # <<>>
        /\ ~ret'.success) => Current' = Current]_vars

----------------------------------------------------------------------------
(* Two orchestrators alive at once: the primary and the secondary of a           *)
(* HybridOrchestrator in auto mode, or two sessions of the backend server.  Each *)
(* has its own SimpleRLLoop, loaded from the one state file when it was made:    *)
(* the first in q_values, user_preferences and item_popularity, the second in    *)
(* peer                                                                          *)

MaxSharedCalls == 3

Instances == {"primary", "secondary"}

\* the call recorded in trail.calls
Selected(instance, u, i) == [instance |-> instance, user |-> u, item |-> i]

\* the instance has recorded something its last save_state does not hold
Recorded(instance, u, i) ==
    [trail EXCEPT !.calls = Append(@, Selected(instance, u, i)),
                  !.saved = @ \ {instance}]

\* record_item_selected on the first instance, from its process_user_input
PrimaryRecordItemSelected ==
    /\ n_calls < MaxSharedCalls
    /\ \E u \in Users, i \in Items :
          /\ SetStore(RecordItemSelected(Current, u, i))
          /\ trail' = Recorded("primary", u, i)
    /\ ret' = Returned("record_item_selected")
    /\ n_calls' = n_calls + 1
    /\ UNCHANGED <<state_action_history, file, written, tamper, n_io, cart_items,
                   restaurant_id, orders, session, peer, chain>>

\* record_item_selected on the second instance
SecondaryRecordItemSelected ==
    /\ n_calls < MaxSharedCalls
    /\ \E u \in Users, i \in Items :
          /\ peer' = RecordItemSelected(peer, u, i)
          /\ trail' = Recorded("secondary", u, i)
    /\ ret' = Returned("record_item_selected")
    /\ n_calls' = n_calls + 1
    /\ UNCHANGED <<q_values, user_preferences, item_popularity, state_action_history,
                   file, written, tamper, n_io, cart_items, restaurant_id, orders,
                   session, chain>>

\* save_state of the first instance (its checkout or cleanup): the file is opened with
\* 'w' and the three mappings of this instance are dumped; what the file held is not read
PrimarySaveState ==
    /\ n_calls < MaxSharedCalls
    /\ file' = SaveDoc(Current)
    /\ written' = Current
    /\ trail' = [trail EXCEPT !.saved = @ \cup {"primary"}]
    /\ ret' = Returned("save_state")
    /\ n_calls' = n_calls + 1
    /\ UNCHANGED <<q_values, user_preferences, item_popularity, state_action_history,
                   tamper, n_io, cart_items, restaurant_id, orders, session, peer, chain>>

\* save_state of the second instance
SecondarySaveState ==
    /\ n_calls < MaxSharedCalls
    /\ file' = SaveDoc(peer)
    /\ written' = peer
    /\ trail' = [trail EXCEPT !.saved = @ \cup {"secondary"}]
    /\ ret' = Returned("save_state")
    /\ n_calls' = n_calls + 1
    /\ UNCHANGED <<q_values, user_preferences, item_popularity, state_action_history,
                   tamper, n_io, cart_items, restaurant_id, orders, session, peer, chain>>

\* HybridOrchestrator.cleanup: cleanup of the primary orchestrator, then of the
\* secondary one, each calling save_state, so the file is written twice and holds the
\* second dump
HybridCleanup ==
    /\ n_calls < MaxSharedCalls
    /\ file' = SaveDoc(peer)
    /\ written' = peer
    /\ trail' = [trail EXCEPT !.saved = Instances]
    /\ ret' = Returned("cleanup")
    /\ n_calls' = n_calls + 1
    /\ UNCHANGED <<q_values, user_preferences, item_popularity, state_action_history,
                   tamper, n_io, cart_items, restaurant_id, orders, session, peer, chain>>

\* both instances have been constructed and have loaded the file
InitShared ==
    /\ file \in SavedBefore
    /\ q_values = LoadState(EmptyStore, file).q
    /\ user_preferences = LoadState(EmptyStore, file).prefs
    /\ item_popularity = LoadState(EmptyStore, file).pop
    /\ peer = LoadState(EmptyStore, file)
    /\ state_action_history = <<>>
    /\ written = LoadState(EmptyStore, file)
    /\ tamper = NoTamper
    /\ ret = Returned("__init__")
    /\ n_calls = 0
    /\ n_io = 0
    /\ cart_items = <<>>
    /\ restaurant_id = None
    /\ orders = <<>>
    /\ session = NoSession
    /\ chain = NoChain
    /\ trail = [NoTrail EXCEPT !.start = LoadState(EmptyStore, file)]

NextShared ==
    \/ PrimaryRecordItemSelected
    \/ SecondaryRecordItemSelected
    \/ PrimarySaveState
    \/ SecondarySaveState
    \/ HybridCleanup

\* At most MaxSharedCalls calls on two instances that share the state file
SpecShared == InitShared /\ [][NextShared]_vars

RECURSIVE Replay(_, _)
\* the store after the recorded calls, whichever instance made them
Replay(st, calls) ==
    IF calls = <<>> THEN st
    ELSE Replay(RecordItemSelected(st, Head(calls).user, Head(calls).item), Tail(calls))

\* C24: once every instance has saved what it recorded, the file holds the updates of
\* all of them: its Q-values are those of the store the file first held with every
\* recorded selection applied
C24_NothingDiscarded ==
    trail.saved = Instances =>
        Pairs(LoadState(EmptyStore, file).q) = Pairs(Replay(trail.start, trail.calls).q)

----------------------------------------------------------------------------
(* HybridOrchestrator.process_user_input: the routing and the fallback between   *)
(* _process_with_langchain and _process_with_gemini.  chain.stack holds the      *)
(* frames of the methods of HybridOrchestrator that have not returned; a backend *)
(* call takes at least one more frame.  chain.force_model and chain.is_complex   *)
(* are the argument of the call under way and what _auto_route finds in its text *)

\* the interpreter's recursion limit (sys.getrecursionlimit(), 1000 by default)
RecursionLimit == 6

MaxInputs == 2

\* mode and whether secondary_orchestrator is set: only auto mode has a secondary
Configurations ==
    { [mode |-> "auto", secondary |-> TRUE],
      [mode |-> "auto", secondary |-> FALSE],
      [mode |-> "langchain", secondary |-> FALSE],
      [mode |-> "gemini", secondary |-> FALSE] }

\* the method process_user_input hands the input to, and the frames on the way
Route(mode, secondary, force_model, is_complex) ==
    IF force_model = "gemini" /\ secondary
    THEN <<"process_user_input", "_process_with_gemini">>
    ELSE IF force_model = "langchain" \/ mode = "langchain"
    THEN <<"process_user_input", "_process_with_langchain">>
    ELSE IF is_complex /\ secondary
    THEN <<"process_user_input", "_auto_route", "_process_with_gemini">>
    ELSE <<"process_user_input", "_auto_route", "_process_with_langchain">>

\* the chain after the call has ended, by a return or by an exception
Ended(c, pc, error) == [c EXCEPT !.pc = pc, !.error = error, !.stack = <<>>]

\* return self._process_with_...(user_input) inside the except block: one more frame,
\* or RecursionError when the stack is full; the exception is raised inside the
\* handlers, so no frame below catches it
Fallback(c, method) ==
    IF Len(c.stack) >= RecursionLimit
    THEN Ended(c, "raised", "RecursionError")
    ELSE [c EXCEPT !.stack = Append(@, method)]

\* the except block of the method on top of the stack
Handler(c) ==
    IF c.stack[Len(c.stack)] = "_process_with_langchain"
    THEN IF c.secondary
         THEN Fallback(c, "_process_with_gemini")
         ELSE Ended(c, "raised", "backend")
    ELSE Fallback(c, "_process_with_langchain")

\* process_user_input is called with an input
HybridProcessUserInput ==
    /\ chain.pc # "calling"
    /\ chain.inputs < MaxInputs
    /\ \E force_model \in {"none", "langchain", "gemini"}, is_complex \in BOOLEAN :
          chain' = [chain EXCEPT
                       !.pc = "calling",
                       !.error = "none",
                       !.inputs = @ + 1,
                       !.force_model = force_model,
                       !.is_complex = is_complex,
                       !.stack = Route(chain.mode, chain.secondary, force_model, is_complex)]
    /\ ret' = Returned("process_user_input")
    /\ UNCHANGED <<q_values, user_preferences, item_popularity, state_action_history,
                   file, written, tamper, n_calls, n_io, cart_items, restaurant_id,
                   orders, session, peer, trail>>

\* the backend of the method on top of the stack returns a response, which every
\* frame returns to its caller
BackendReturns ==
    /\ chain.pc = "calling"
    /\ Len(chain.stack) < RecursionLimit
    /\ chain' = Ended(chain, "returned", "none")
    /\ ret' = Returned("process_user_input")
    /\ UNCHANGED <<q_values, user_preferences, item_popularity, state_action_history,
                   file, written, tamper, n_calls, n_io, cart_items, restaurant_id,
                   orders, session, peer, trail>>

\* the backend of the method on top of the stack raises an Exception (RecursionError
\* when there is no frame left for it), and the except block runs
BackendRaises ==
    /\ chain.pc = "calling"
    /\ chain' = Handler(chain)
    /\ ret' = [Returned("process_user_input") EXCEPT !.raised = chain'.pc = "raised"]
    /\ UNCHANGED <<q_values, user_preferences, item_popularity, state_action_history,
                   file, written, tamper, n_calls, n_io, cart_items, restaurant_id,
                   orders, session, peer, trail>>

\* HybridOrchestrator.__init__
InitHybrid ==
    /\ q_values = <<>>
    /\ user_preferences = <<>>
    /\ item_popularity = <<>>
    /\ state_action_history = <<>>
    /\ file = NoFile
    /\ written = EmptyStore
    /\ tamper = NoTamper
    /\ ret = Returned("__init__")
    /\ n_calls = 0
    /\ n_io = 0
    /\ cart_items = <<>>
    /\ restaurant_id = None
    /\ orders = <<>>
    /\ session = NoSession
    /\ peer = EmptyStore
    /\ trail = NoTrail
    /\ \E c \in Configurations :
          chain = [NoChain EXCEPT !.mode = c.mode, !.secondary = c.secondary]

NextHybrid ==
    \/ HybridProcessUserInput
    \/ BackendReturns
    \/ BackendRaises

\* At most MaxInputs inputs, each backend call returning or raising
SpecHybrid == InitHybrid /\ [][NextHybrid]_vars

\* C30: the fallback chain ends after a number of tries that the code bounds, with the
\* response of a backend or the exception of a backend: it never goes on until the call
\* stack of the interpreter is exhausted
C30_FallbackBounded == chain.error # "RecursionError"

----------------------------------------------------------------------------
(* The update rules on binary floating-point numbers.  A Python float is a      *)
(* double: 53 significant bits, every operation rounded to the nearest double,  *)
(* ties to even.  Here a float has Precision significant bits and is counted in *)
(* 1/Grid, Grid a power of two; the operations round in the same way            *)

Precision == 6
GridBits == 12
MaxEvents == 3

RECURSIVE Pow2(_)
Pow2(n) == IF n = 0 THEN 1 ELSE 2 * Pow2(n - 1)

Grid == Pow2(GridBits)

RECURSIVE BitLength(_)
\* the number of binary digits of a natural number
BitLength(x) == IF x = 0 THEN 0 ELSE 1 + BitLength(x \div 2)

\* the weight of the last significant bit of a float of the size of x
Ulp(x) ==
    LET e == BitLength(IF x < 0 THEN -x ELSE x) - Precision
    IN  IF e <= 0 THEN 1 ELSE Pow2(e)

\* x >= 0 rounded to Precision significant bits, ties to even
RoundNat(x) ==
    LET p == Ulp(x)
        low == x \div p
        rest == x % p
        up == 2 * rest > p \/ (2 * rest = p /\ low % 2 = 1)
    IN  (low + (IF up THEN 1 ELSE 0)) * p

Round(x) == IF x < 0 THEN -RoundNat(-x) ELSE RoundNat(x)

\* a + b
FloatAdd(a, b) == Round(a + b)

\* a * b: the product, counted in 1/Grid^2, is rounded and brought back to 1/Grid
FloatMul(a, b) == Round(a * b) \div Grid

\* a / b for a, b > 0 counted in the same unit: the quotient, counted in 1/(2 * Grid)
\* with its last bit set when the division leaves a remainder, is rounded and brought
\* back to 1/Grid
FloatDiv(a, b) ==
    LET num == a * Grid
        sticky == IF num % b = 0 THEN 0 ELSE 1
    IN  RoundNat(2 * (num \div b) + sticky) \div 2

\* the float of the literal n/10, n > 0
FloatTenths(n) == FloatDiv(n, 10)

\* d[k] += delta
AddToFloat(d, k, delta) == Put(d, k, FloatAdd(Get(d, k, 0), delta))

\* p[u][i] += delta
AddPrefFloat(p, u, i, delta) == Put(p, u, AddToFloat(Get(p, u, <<>>), i, delta))

\* record_item_selected with "=" where the code has "+=" on the Q-value
RecordItemSelectedFloatOverwrite(st, u, i) ==
    Store(Put(st.q, <<u, i>>, FloatTenths(1)),
          AddPrefFloat(st.prefs, u, i, FloatTenths(2)),
          AddToFloat(st.pop, i, FloatTenths(1)))

\* record_item_selected
RecordItemSelectedFloat(st, u, i) ==
    Store(AddToFloat(st.q, <<u, i>>, FloatTenths(1)),
          AddPrefFloat(st.prefs, u, i, FloatTenths(2)),
          AddToFloat(st.pop, i, FloatTenths(1)))

\* reward = 1.0; reward += 0.5; reward += 0.3
RewardFloat(order) ==
    LET high == IF order.total > HighValueTotal THEN FloatAdd(Grid, FloatTenths(5)) ELSE Grid
    IN  IF Len(order.items) > MultiItemCount THEN FloatAdd(high, FloatTenths(3)) ELSE high

RECURSIVE ApplyLinesFloat(_, _, _, _)
\* the loop over order_data['items']
ApplyLinesFloat(st, u, lines, reward) ==
    IF lines = <<>> THEN st
    ELSE LET line == Head(lines)
             touched == Put(st.prefs, u, Get(st.prefs, u, <<>>))
             next == Store(AddToFloat(st.q, <<u, line.item_id>>, reward),
                           AddPrefFloat(touched, u, line.item_id, reward),
                           AddToFloat(st.pop, line.item_id,
                                      FloatMul(line.quantity * Grid, FloatTenths(5))))
         IN  ApplyLinesFloat(next, u, Tail(lines), reward)

\* record_order_completed
RecordOrderCompletedFloat(st, u, order) ==
    ApplyLinesFloat(st, u, order.items, RewardFloat(order))

\* a feedback score, given in 1/Unit, as a float
FloatOf(score) ==
    IF score < 0 THEN -FloatDiv(-score, Unit) ELSE FloatDiv(score, Unit)

\* record_user_feedback
RecordUserFeedbackFloat(st, u, i, score) ==
    LET given == FloatOf(score)
        f == IF given > Grid THEN FloatDiv(given, 5 * Grid) ELSE given
        scaled == IF f < 0 THEN -FloatMul(-f, FloatTenths(1)) ELSE FloatMul(f, FloatTenths(1))
    IN  Store(AddToFloat(st.q, <<u, i>>, scaled),
              AddPrefFloat(st.prefs, u, i, f),
              st.pop)

\* an update call and its arguments
Event(op, u, i, order, score) ==
    [op |-> op, user |-> u, item |-> i, order |-> order, score |-> score]

\* the update calls made, all by user 1: a selection of item 21, two orders, and
\* ratings of -0.5 and 0.9 for item 21 and of 4.5 for item 2
Events ==
    { Event("record_item_selected", 1, 21, OrderTwo, 0),
      Event("record_order_completed", 1, 0, OrderTwo, 0),
      Event("record_order_completed", 1, 0,
            [items |-> <<Line(21, 1), Line(21, 2)>>, total |-> 501], 0),
      Event("record_user_feedback", 1, 21, OrderTwo, -Tenths(5)),
      Event("record_user_feedback", 1, 21, OrderTwo, Tenths(9)),
      Event("record_user_feedback", 1, 2, OrderTwo, Tenths(45)) }

\* the store after one update call
ApplyFloat(st, e) ==
    IF e.op = "record_item_selected" THEN RecordItemSelectedFloat(st, e.user, e.item)
    ELSE IF e.op = "record_order_completed" THEN RecordOrderCompletedFloat(st, e.user, e.order)
    ELSE RecordUserFeedbackFloat(st, e.user, e.item, e.score)

\* one of the three update calls on the instance
FloatCall(op) ==
    /\ n_calls < MaxEvents
    /\ \E e \in {x \in Events : x.op = op} :
          /\ SetStore(ApplyFloat(Current, e))
          /\ trail' = [trail EXCEPT !.calls = Append(@, e)]
    /\ ret' = Returned(op)
    /\ n_calls' = n_calls + 1
    /\ UNCHANGED <<state_action_history, file, written, tamper, n_io, cart_items,
                   restaurant_id, orders, session, peer, chain>>

FloatRecordItemSelected == FloatCall("record_item_selected")

FloatRecordOrderCompleted == FloatCall("record_order_completed")

FloatRecordUserFeedback == FloatCall("record_user_feedback")

\* the stores the calls start from: a new instance, and one that has recorded an order
FloatStarts == {EmptyStore, RecordOrderCompletedFloat(EmptyStore, 1, OrderTwo)}

InitOrder ==
    /\ \E st \in FloatStarts :
          /\ q_values = st.q
          /\ user_preferences = st.prefs
          /\ item_popularity = st.pop
          /\ trail = [NoTrail EXCEPT !.start = st]
    /\ state_action_history = <<>>
    /\ file = NoFile
    /\ written = EmptyStore
    /\ tamper = NoTamper
    /\ ret = Returned("__init__")
    /\ n_calls = 0
    /\ n_io = 0
    /\ cart_items = <<>>
    /\ restaurant_id = None
    /\ orders = <<>>
    /\ session = NoSession
    /\ peer = EmptyStore
    /\ chain = NoChain

NextOrder ==
    \/ FloatRecordItemSelected
    \/ FloatRecordOrderCompleted
    \/ FloatRecordUserFeedback

\* At most MaxEvents update calls, computed on floats
SpecOrder == InitOrder /\ [][NextOrder]_vars

RECURSIVE ReplayFloat(_, _)
\* the store after the calls, made in the order of the sequence
ReplayFloat(st, calls) ==
    IF calls = <<>> THEN st ELSE ReplayFloat(ApplyFloat(st, Head(calls)), Tail(calls))

\* the sequences that hold the same calls as s, each as often as s does
Reorderings(s) ==
    {[n \in 1..Len(s) |-> s[f[n]]] :
        f \in {g \in [1..Len(s) -> 1..Len(s)] : \A a, b \in 1..Len(s) : g[a] = g[b] => a = b}}

\* the stores the calls made so far give in their other orders
Reordered == {ReplayFloat(trail.start, p) : p \in Reorderings(trail.calls)}

\* two dicts are equal as Python compares them: the same keys with the same values
SameDict(d, e) == Pairs(d) = Pairs(e)

RECURSIVE Additions(_)
\* how many "+=" the calls do on one key at most: one per line item of an order, and
\* one per selection or rating
Additions(calls) ==
    IF calls = <<>> THEN 0
    ELSE (IF Head(calls).op = "record_order_completed" THEN Len(Head(calls).order.items) ELSE 1)
         + Additions(Tail(calls))

\* what the roundings of the additions can amount to on a key that started at v: each
\* addend is 2.0 at most, so no partial sum exceeds |v| + 2 * Additions, and each
\* addition is off by half a unit in the last place of its result at most
Slack(v) ==
    Additions(trail.calls)
        * Ulp((IF v < 0 THEN -v ELSE v) + 2 * Grid * Additions(trail.calls))

\* the values of two dicts with the same keys differ by the roundings at most
CloseDict(d, e, start) ==
    /\ Keys(d) = Keys(e)
    /\ \A k \in Keys(d) :
          LET diff == Get(d, k, 0) - Get(e, k, 0)
          IN  (IF diff < 0 THEN -diff ELSE diff) <= Slack(Get(start, k, 0))

\* C26 as stated: every order of the calls made so far gives the store the instance has
C26_OrderIndependent ==
    \A st \in Reordered :
        /\ SameDict(st.q, q_values)
        /\ SameDict(st.pop, item_popularity)
        /\ Keys(st.prefs) = Keys(user_preferences)
        /\ \A u \in Keys(st.prefs) : SameDict(Get(st.prefs, u, <<>>), Get(user_preferences, u, <<>>))

\* C26 amended: every order of the calls made so far gives a store with the keys of the
\* store the instance has, in all three mappings, and with values that differ from its
\* values by the roundings of the additions at most
C26_OrderIndependentUpToRounding ==
    \A st \in Reordered :
        /\ CloseDict(st.q, q_values, trail.start.q)
        /\ CloseDict(st.pop, item_popularity, trail.start.pop)
        /\ Keys(st.prefs) = Keys(user_preferences)
        /\ \A u \in Keys(st.prefs) :
              CloseDict(Get(st.prefs, u, <<>>), Get(user_preferences, u, <<>>),
                        Get(trail.start.prefs, u, <<>>))

\* C26 witness: a selection, an order and a rating have been recorded and another order
\* of the three gives another Q-value
C26_Witness ==
    /\ Len(trail.calls) = 3
    /\ {trail.calls[n].op : n \in 1..3}
          = {"record_item_selected", "record_order_completed", "record_user_feedback"}
    /\ \E st \in Reordered : ~SameDict(st.q, q_values)

====
